---- MODULE Spec2Model ----
(***************************************************************************)
(* Model of the alert interpretation pipeline: the Parser Engine          *)
(* (policy-based parser, model-backed parser and their orchestration in   *)
(* parseAlert) and the Decision Engine (decide / evaluateCondition).      *)
(*                                                                        *)
(* JavaScript values are tagged records [t, s, n]: t is the JS type tag,  *)
(* s the string payload, n the numeric payload.  Numbers are kept in      *)
(* hundredths, so the confidence 0.7 is 70 and the range 0..1 is 0..100.  *)
(* An object is a function from Fields to values in which Undef marks an  *)
(* absent key.                                                            *)
(***************************************************************************)
EXTENDS Integers, Sequences, FiniteSets, TLC

VARIABLES
    policiesCache,   \* let policiesCache: <<>> (null) or <<the cached list>>
    env,             \* process.env: the two DISABLE_* toggles
    text,            \* the text handed to parseAlert
    pc,              \* position of the parseAlert call
    policyResult,    \* parseAlert's local policyResult
    availableModels, \* tryLLMParsing's local availableModels
    modelsToTry,     \* tryLLMParsing's local modelsToTry
    modelIdx,        \* position of the for-loop over modelsToTry
    errors,          \* tryLLMParsing's local errors
    lastReply,       \* what the backend answered to the latest chat call
    healthCalls,     \* number of GET /api/tags requests issued
    chatCalls,       \* models that received a POST /api/chat, in order
    llmResult,       \* parseAlert's local llmResult
    result,          \* what parseAlert returned (or that it threw)
    dParsed,         \* decide's argument parsed
    dPolicy,         \* decide's argument policy
    dOut,            \* decide's outcome
    dOutLegacy,      \* outcome of the earlier decide (decide.js:95-105)
    policiesFile,    \* the policy source on disk
    loadOut,         \* the latest loadPolicies / reloadPolicies call
    legacyPolicyResult, \* what the earlier tryPolicyParsing returned
    reportArgs,      \* formatReport's argument { parsed, decision, policy }
    enableMcp,       \* process.env.ENABLE_MCP === "true"
    report,          \* what formatReport returned (or that it threw)
    blocks,          \* the approve buttons of the posted Slack message
    legacyReport,    \* what the earlier formatReport (part_003) returned
    canned,          \* the canned backend a repeated request runs against
    firstResult,     \* what parseAlert returned to the first of two requests
    promptPolicies,  \* tryLLMParsing's policies for the prompt: <<>> or <<list>>
    lookupPolicies,  \* tryLLMParsing's policies for the lookup: <<>> or <<list>>
    mcp,             \* mcpClient.js: let mcpClient and the calls of getMCPClient
    approval         \* one approval message and the handlers of its clicks

vars == <<policiesCache, env, text, pc, policyResult, availableModels,
          modelsToTry, modelIdx, errors, lastReply, healthCalls, chatCalls,
          llmResult, result, dParsed, dPolicy, dOut, dOutLegacy,
          policiesFile, loadOut, legacyPolicyResult, reportArgs, enableMcp,
          report, blocks, legacyReport, canned, firstResult, promptPolicies,
          lookupPolicies, mcp, approval>>

parserVars == <<policiesCache, env, text, pc, policyResult, availableModels,
                modelsToTry, modelIdx, errors, lastReply, healthCalls,
                chatCalls, llmResult, result>>

decideVars == <<dParsed, dPolicy, dOut>>

\* State of the earlier variants of the code that the repository also holds.
legacyVars == <<dOutLegacy, legacyPolicyResult, legacyReport>>

\* The Policy Store besides its cache slot.
storeVars == <<policiesFile, loadOut>>

\* Everything outside the Parser Engine and the rule-based decide.
\* The Action/Report Formatter and the message built from its report.
reportVars == <<reportArgs, enableMcp, report, blocks>>

\* A request repeated against the same canned backend.
twiceVars == <<canned, firstResult, promptPolicies, lookupPolicies>>

\* The MCP client and the approve/reject handlers.
sideVars == <<mcp, approval>>

extVars == <<legacyVars, storeVars, reportVars, twiceVars, sideVars>>

----------------------------------------------------------------------------
(* JavaScript values *)

Undef == [t |-> "undefined", s |-> "", n |-> 0]
Null == [t |-> "null", s |-> "", n |-> 0]
NaN == [t |-> "nan", s |-> "", n |-> 0]
Str(x) == [t |-> "string", s |-> x, n |-> 0]
Num(x) == [t |-> "number", s |-> "", n |-> x]
\* An object literal; s tells whether it is empty, holds only string values,
\* or holds a value that is not a string.
Obj(kind) == [t |-> "object", s |-> kind, n |-> 0]
\* An array; s tells whether it is empty, holds only strings, or not.
Arr(kind) == [t |-> "array", s |-> kind, n |-> 0]

\* v1 ?? v2
Nullish(v) == v.t \in {"null", "undefined"}
Coalesce(v1, v2) == IF Nullish(v1) THEN v2 ELSE v1

\* JavaScript truthiness, as used by || and !
Truthy(v) ==
    CASE v.t \in {"undefined", "null", "nan"} -> FALSE
      [] v.t = "string" -> v.s # ""
      [] v.t = "number" -> v.n # 0
      [] OTHER -> TRUE

\* Number(value) of a captured string; the numeric strings of the model and
\* their values in hundredths.
NumericStrings == {"80.0", "65.5"}
NumberOf(x) ==
    CASE x = "80.0" -> Num(8000)
      [] x = "65.5" -> Num(6550)
      [] x = "" -> Num(0)
      [] OTHER -> NaN

----------------------------------------------------------------------------
(* ParsedAlert objects and the schema *)

RequiredString == {"alert_type", "parse_method"}
RequiredNullableString ==
    {"project_id", "instance_name", "policy_name", "condition_name",
     "violation_started_raw", "gcp_alert_url"}
OptionalNullableNumber == {"threshold_percent", "value_percent"}
OptionalNullableString ==
    {"user_intent", "service_name", "schedule_name", "schedule_expression",
     "duration_sec", "min_replicas", "environment", "current_machine_type",
     "target_machine_type"}
SchemaFields ==
    RequiredString \cup RequiredNullableString \cup OptionalNullableNumber
    \cup OptionalNullableString
    \cup {"metric_labels", "confidence", "missing_fields"}
\* Keys the schema does not declare (kept by passthrough).
ExtraFields ==
    {"serviceName", "currentMachineType", "targetMachineType", "runbook", "schedule"}
Fields == SchemaFields \cup ExtraFields

EmptyObject == [f \in Fields |-> Undef]

\* { ...a, ...b }
Spread(a, b) == [f \in Fields |-> IF b[f] # Undef THEN b[f] ELSE a[f]]

\* An object literal from a set of <<key, value>> pairs.
Object(pairs) ==
    [f \in Fields |->
        IF \E p \in pairs : p[1] = f
        THEN (CHOOSE p \in pairs : p[1] = f)[2]
        ELSE Undef]

\* ParsedAlertSchema: one clause per declared key; passthrough() lets every
\* other key through unchecked.
FieldValid(f, v) ==
    CASE f \in RequiredString -> v.t = "string"
      [] f \in RequiredNullableString -> v.t \in {"string", "null"}
      [] f \in OptionalNullableNumber -> v.t \in {"number", "null", "undefined"}
      [] f \in OptionalNullableString -> v.t \in {"string", "null", "undefined"}
      [] f = "metric_labels" -> v.t = "object" /\ v.s # "mixed"
      [] f = "confidence" -> v.t = "number"
      [] f = "missing_fields" -> v.t = "array" /\ v.s # "mixed"
      [] OTHER -> TRUE

SchemaAccepts(o) == \A f \in Fields : FieldValid(f, o[f])

\* Mutant: the record is returned without being checked.
validateParsedAlert_Unchecked(o) == [threw |-> FALSE, value |-> o]

\* validateParsedAlert(o): ParsedAlertSchema.parse(o) returns the object
\* (unknown keys kept) or throws.
validateParsedAlert(o) ==
    IF SchemaAccepts(o) THEN [threw |-> FALSE, value |-> o]
    ELSE [threw |-> TRUE, value |-> EmptyObject]

----------------------------------------------------------------------------
(* Texts, patterns and policies *)

\* A text is described by what the regular expressions of the model see in
\* it: the expressions that match it (hits), the keywords of the
\* disambiguation guard that occur in it as words (words) or only inside a
\* longer word (inside), and the values of the capture groups of a match
\* (groups; Undef for a group that did not take part in the match).
MakeText(id, hits, words, groups) ==
    [id |-> id, hits |-> hits, words |-> words, inside |-> {}, groups |-> groups]

TextDisk ==
    MakeText("Disk utilization for project-123 instance-456 threshold of 80.0 with a value of 65.5",
             {"re_disk"}, {"disk"},
             <<Str("project-123"), Str("instance-456"), Str("80.0"), Str("65.5")>>)
TextMemFull ==
    MakeText("add memory to vm serviceName mm-drb currentMachineType c2d-standard-2 targetMachineType c2d-standard-4",
             {"re_mem", "re_vm"}, {"memory"},
             <<Str("mm-drb"), Str("c2d-standard-2"), Str("c2d-standard-4")>>)
TextMemPartial ==
    MakeText("add memory to vm serviceName mm-drb", {"re_mem", "re_vm"},
             {"memory"}, <<Str("mm-drb"), Undef, Str("")>>)
TextDiskVm ==
    MakeText("disk space is low on the vm", {"re_vm"}, {"disk"}, <<>>)
TextScale ==
    MakeText("we need to scale up the api", {"re_scale"}, {}, <<Str("api")>>)
TextQuestion ==
    MakeText("what should I do?", {}, {}, <<>>)

\* "program" holds the letters r, a, m.
TextDiskProgram ==
    [MakeText("disk space is low on the program vm", {"re_vm"}, {"disk"}, <<>>)
        EXCEPT !.inside = {"ram"}]

Texts == {TextDisk, TextMemFull, TextMemPartial, TextDiskVm, TextScale,
          TextQuestion}

Regex(name, capture_groups) ==
    [type |-> "regex", pattern |-> name, capture_groups |-> capture_groups]

MakePolicy(alert_type, patterns, extraction_rules) ==
    [alert_type |-> alert_type, patterns |-> patterns,
     extraction_rules |-> extraction_rules]

\* extraction_rules that give every required key of the schema a value.
BaseRules(alert_type) ==
    Object({<<"alert_type", Str(alert_type)>>, <<"project_id", Null>>,
            <<"instance_name", Null>>, <<"policy_name", Null>>,
            <<"condition_name", Null>>, <<"violation_started_raw", Null>>,
            <<"gcp_alert_url", Null>>, <<"confidence", Num(90)>>,
            <<"parse_method", Str("policy")>>})

DiskPolicy ==
    MakePolicy("disk_utilization_low",
               <<Regex("re_disk", <<<<"project_id", 1>>, <<"instance_name", 2>>,
                                    <<"threshold_percent", 3>>,
                                    <<"value_percent", 4>>>>)>>,
               BaseRules("disk_utilization_low"))
\* Two alternative patterns: a strict one with captures and a loose one.
MemPolicy ==
    MakePolicy("add_memory_to_vm",
               <<Regex("re_mem", <<<<"service_name", 1>>,
                                   <<"current_machine_type", 2>>,
                                   <<"target_machine_type", 3>>>>),
                 Regex("re_vm", <<>>)>>,
               [BaseRules("add_memory_to_vm") EXCEPT !["environment"] = Str("qaprod")])
ScalePolicy ==
    MakePolicy("scaling_intent_detected",
               <<Regex("re_scale", <<<<"service_name", 1>>>>)>>,
               BaseRules("scaling_intent_detected"))
\* Metadata only: no patterns, meant for the model-backed parser.
CpuPolicy ==
    MakePolicy("cpu_utilization_high", <<>>, BaseRules("cpu_utilization_high"))
\* A policy whose extraction_rules name another alert type than its key.
CapacityPolicy ==
    MakePolicy("capacity_request", <<Regex("re_scale", <<>>)>>,
               BaseRules("scaling_intent_detected"))
\* extraction_rules with a provenance tag and a confidence of the author's own.
VmPolicy ==
    MakePolicy("vm_mentioned", <<Regex("keyword", <<>>), Regex("re_vm", <<>>)>>,
               [BaseRules("vm_mentioned") EXCEPT !["confidence"] = Num(500),
                                                 !["parse_method"] = Str("regex"),
                                                 !["runbook"] = Str("wiki/vm")])
\* extraction_rules whose default for a captured key has the wrong type: the
\* default only shows when nothing overrides it.
OddMemPolicy ==
    MakePolicy("add_memory_to_vm",
               <<Regex("re_mem", <<<<"service_name", 1>>,
                                   <<"current_machine_type", 2>>,
                                   <<"target_machine_type", 3>>>>)>>,
               [BaseRules("add_memory_to_vm") EXCEPT !["target_machine_type"] = Num(400)])
\* extraction_rules that leave required keys out.
SparsePolicy ==
    MakePolicy("disk_utilization_low",
               <<Regex("re_disk", <<<<"threshold_percent", 3>>>>)>>,
               Object({<<"alert_type", Str("disk_utilization_low")>>}))

\* extraction_rules that also give metric_labels and missing_fields, so that
\* the record validates without the per-field fallbacks.
FullRules(alert_type) ==
    [BaseRules(alert_type) EXCEPT !["metric_labels"] = Obj("empty"),
                                  !["missing_fields"] = Arr("empty")]
CpuFullPolicy ==
    MakePolicy("cpu_utilization_high", <<>>, FullRules("cpu_utilization_high"))
DiskFullPolicy ==
    MakePolicy("disk_utilization_low", DiskPolicy.patterns,
               FullRules("disk_utilization_low"))
VmFullPolicy ==
    MakePolicy("vm_mentioned", VmPolicy.patterns, FullRules("vm_mentioned"))
ScaleFullPolicy ==
    MakePolicy("scaling_intent_detected", ScalePolicy.patterns,
               FullRules("scaling_intent_detected"))

\* A policy whose second expression is malformed.
BrokenPolicy ==
    MakePolicy("vm_mentioned", <<Regex("keyword", <<>>), Regex("(", <<>>)>>,
               FullRules("vm_mentioned"))

PolicySets ==
    { <<DiskPolicy, MemPolicy, ScalePolicy, CpuPolicy>>,
      <<CapacityPolicy, ScalePolicy, MemPolicy>>,
      <<OddMemPolicy, VmPolicy>>,
      <<SparsePolicy, DiskPolicy, MemPolicy, ScalePolicy>> }

----------------------------------------------------------------------------
(* Pattern matcher and policy-based parser *)

\* key.includes("percent") || key.includes("threshold") || key.includes("value"),
\* over the keys of the model.
NumericKey(key) == key \in {"threshold_percent", "value_percent"}

\* match[parseInt(groupIndex)]
MatchGroup(txt, groupIndex) ==
    IF groupIndex \in 1..Len(txt.groups) THEN txt.groups[groupIndex] ELSE Undef

RECURSIVE ProjectGroups(_, _, _)
ProjectGroups(entries, txt, extracted) ==
    IF entries = <<>> THEN extracted
    ELSE LET key == Head(entries)[1]
             value == MatchGroup(txt, Head(entries)[2])
             next == IF value = Undef THEN extracted
                     ELSE IF NumericKey(key)
                          THEN [extracted EXCEPT ![key] = NumberOf(value.s)]
                          ELSE [extracted EXCEPT ![key] = value]
         IN ProjectGroups(Tail(entries), txt, next)

\* new RegExp(source) throws a SyntaxError for the one malformed expression
\* of the model.
RegexCompiles(source) == source # "("

\* new RegExp(pattern.pattern, "i") throws inside applyPattern.
PatternThrows(pattern) == pattern.type = "regex" /\ ~RegexCompiles(pattern.pattern)

\* Every expression of the policies compiles.
PatternsCompile(policies) ==
    \A i \in 1..Len(policies) : \A j \in 1..Len(policies[i].patterns) :
        ~PatternThrows(policies[i].patterns[j])

\* applyPattern(pattern, text): null (matched = FALSE) or the extracted
\* object, for a pattern whose expression compiles.
applyPattern(pattern, txt) ==
    IF pattern.type = "regex" /\ pattern.pattern \in txt.hits
    THEN [matched |-> TRUE,
          extracted |-> ProjectGroups(pattern.capture_groups, txt, EmptyObject)]
    ELSE [matched |-> FALSE, extracted |-> EmptyObject]

\* The inner loop of tryPolicyParsing: the first pattern that matches, 0 if none.
FirstMatchingPattern(policy, txt) ==
    LET hit == {j \in 1..Len(policy.patterns) :
                    applyPattern(policy.patterns[j], txt).matched}
    IN IF hit = {} THEN 0 ELSE CHOOSE j \in hit : \A k \in hit : j <= k

\* The inner loop of tryPolicyParsing throws: it reaches a pattern whose
\* expression does not compile before any pattern has matched.
PatternLoopThrows(policy, txt) ==
    \E j \in 1..Len(policy.patterns) :
        /\ PatternThrows(policy.patterns[j])
        /\ \A k \in 1..(j - 1) : ~applyPattern(policy.patterns[k], txt).matched

\* /(disk|storage)/i.test(text) and /(memory|ram)/i.test(text): the
\* expressions are not anchored, so a keyword inside a longer word counts.
GuardTest(txt, keywords) == (txt.words \cup txt.inside) \cap keywords # {}

\* The disambiguation guard of add_memory_to_vm.
GuardSkips(policy, txt) ==
    /\ policy.alert_type = "add_memory_to_vm"
    /\ GuardTest(txt, {"disk", "storage"})
    /\ ~GuardTest(txt, {"memory", "ram"})

DefaultConfidence == 70

\* The record tryPolicyParsing merges from extraction_rules and extracted.
MergeExtraction(rules, extracted) ==
    [Spread(rules, extracted) EXCEPT
        !["threshold_percent"] =
            Coalesce(Coalesce(extracted["threshold_percent"], rules["threshold_percent"]), Null),
        !["value_percent"] =
            Coalesce(Coalesce(extracted["value_percent"], rules["value_percent"]), Null),
        !["metric_labels"] =
            Coalesce(Coalesce(extracted["metric_labels"], rules["metric_labels"]), Obj("empty")),
        !["missing_fields"] =
            Coalesce(Coalesce(extracted["missing_fields"], rules["missing_fields"]), Arr("empty")),
        !["confidence"] =
            Coalesce(Coalesce(extracted["confidence"], rules["confidence"]), Num(DefaultConfidence)),
        !["parse_method"] =
            Coalesce(Coalesce(extracted["parse_method"], rules["parse_method"]), Str("policy"))]

\* policy is <<>> (none) or <<p>>.
NotMatched == [matched |-> FALSE, threw |-> FALSE, parsed |-> EmptyObject, policy |-> <<>>]
Threw == [matched |-> FALSE, threw |-> TRUE, parsed |-> EmptyObject, policy |-> <<>>]

\* Whether the loop of tryPolicyParsing passes over policies[i].
PolicySkipped(policy, txt) ==
    \/ Len(policy.patterns) = 0
    \/ GuardSkips(policy, txt)
    \/ (~PatternLoopThrows(policy, txt) /\ FirstMatchingPattern(policy, txt) = 0)

\* Mutant: a merged record that fails validation counts as no match.
RECURSIVE PolicyLoop_InvalidIsNoMatch(_, _, _)
PolicyLoop_InvalidIsNoMatch(policies, txt, i) ==
    IF i > Len(policies) THEN NotMatched
    ELSE IF PolicySkipped(policies[i], txt)
    THEN PolicyLoop_InvalidIsNoMatch(policies, txt, i + 1)
    ELSE IF PatternLoopThrows(policies[i], txt) THEN Threw
    ELSE LET policy == policies[i]
             j == FirstMatchingPattern(policy, txt)
             extracted == applyPattern(policy.patterns[j], txt).extracted
             v == validateParsedAlert(MergeExtraction(policy.extraction_rules, extracted))
         IN IF v.threw THEN NotMatched
            ELSE [matched |-> TRUE, threw |-> FALSE, parsed |-> v.value,
                  policy |-> <<policy>>]

\* tryPolicyParsing from policies[i] on.
RECURSIVE PolicyLoop(_, _, _)
PolicyLoop(policies, txt, i) ==
    IF i > Len(policies) THEN NotMatched
    ELSE IF PolicySkipped(policies[i], txt) THEN PolicyLoop(policies, txt, i + 1)
    ELSE IF PatternLoopThrows(policies[i], txt) THEN Threw
    ELSE LET policy == policies[i]
             j == FirstMatchingPattern(policy, txt)
             extracted == applyPattern(policy.patterns[j], txt).extracted
             v == validateParsedAlert(MergeExtraction(policy.extraction_rules, extracted))
         IN IF v.threw THEN Threw
            ELSE [matched |-> TRUE, threw |-> FALSE, parsed |-> v.value,
                  policy |-> <<policy>>]

tryPolicyParsing(policies, txt) == PolicyLoop(policies, txt, 1)

----------------------------------------------------------------------------
(* Policy Store: loadPolicies and reloadPolicies *)

\* The source file as loadPolicies meets it: "absent" (existsSync is false),
\* "malformed" (JSON.parse throws), "no_policies" (the document has no
\* policies array) or "json" with its policies array.
PolicyFile(kind, policies) == [kind |-> kind, policies |-> policies]

\* What a call did: the slot it leaves (cache), whether it threw, whether it
\* called readFileSync, and the list it returned (<<>> when it threw).
Loaded(cache, threw, read, value) ==
    [cache |-> cache, threw |-> threw, read |-> read, value |-> value]

loadPolicies(cache, file) ==
    IF cache # <<>> THEN Loaded(cache, FALSE, FALSE, cache)
    ELSE CASE file.kind = "absent" -> Loaded(<<>>, TRUE, FALSE, <<>>)
           [] file.kind = "json" ->
                Loaded(<<file.policies>>, FALSE, TRUE, <<file.policies>>)
           [] OTHER -> Loaded(<<>>, TRUE, TRUE, <<>>)

\* policiesCache = null; return loadPolicies();
reloadPolicies(cache, file) == loadPolicies(<<>>, file)

\* The latest call: which function, the slot before it, and what it did.
LoadOut(call, before, l) ==
    [call |-> call, before |-> before, threw |-> l.threw, read |-> l.read,
     value |-> l.value]
NoLoad == LoadOut("none", <<>>, Loaded(<<>>, FALSE, FALSE, <<>>))

----------------------------------------------------------------------------
(* The earlier policy-based parser (src/src/parser/parserEngine.js) *)

\* Object.assign(extracted, result) over the patterns of a policy.
RECURSIVE AssignAll(_, _, _)
AssignAll(patterns, txt, extracted) ==
    IF patterns = <<>> THEN extracted
    ELSE AssignAll(Tail(patterns), txt,
                   Spread(extracted, applyPattern(Head(patterns), txt).extracted))

\* The earlier inner loop throws: it reaches a pattern whose expression does
\* not compile before any pattern has returned null.
LegacyPatternLoopThrows(policy, txt) ==
    \E j \in 1..Len(policy.patterns) :
        /\ PatternThrows(policy.patterns[j])
        /\ \A k \in 1..(j - 1) : applyPattern(policy.patterns[k], txt).matched

\* allPatternsMatched: no pattern of the policy returned null.
AllPatternsMatched(policy, txt) ==
    \A j \in 1..Len(policy.patterns) : applyPattern(policy.patterns[j], txt).matched

\* The earlier tryPolicyParsing from policies[i] on: every pattern of a
\* policy has to match, and the merge is the plain spread.
RECURSIVE LegacyPolicyLoop(_, _, _)
LegacyPolicyLoop(policies, txt, i) ==
    IF i > Len(policies) THEN NotMatched
    ELSE IF LegacyPatternLoopThrows(policies[i], txt) THEN Threw
    ELSE IF ~AllPatternsMatched(policies[i], txt)
    THEN LegacyPolicyLoop(policies, txt, i + 1)
    ELSE LET policy == policies[i]
             extracted == AssignAll(policy.patterns, txt, EmptyObject)
             v == validateParsedAlert(Spread(policy.extraction_rules, extracted))
         IN IF v.threw THEN Threw
            ELSE [matched |-> TRUE, threw |-> FALSE, parsed |-> v.value,
                  policy |-> <<policy>>]

tryPolicyParsingLegacy(policies, txt) == LegacyPolicyLoop(policies, txt, 1)

----------------------------------------------------------------------------
(* Model backend *)

primaryModel == "llama3.1:latest"
ModelNames == {"llama3.1:latest", "mistral:latest", "qwen2:7b", "nomic-embed-text:latest"}
\* model.includes("embed")
IsEmbedding(model) == model = "nomic-embed-text:latest"

\* Longest model catalogue the backend lists.
MaxModels == 2

RECURSIVE SeqsUpTo(_, _)
SeqsUpTo(S, n) ==
    IF n = 0 THEN {<<>>}
    ELSE LET shorter == SeqsUpTo(S, n - 1)
         IN shorter \cup {Append(q, x) : q \in {r \in shorter : Len(r) = n - 1}, x \in S}

Catalogues == SeqsUpTo(ModelNames, MaxModels)

\* What the backend does with GET /api/tags.
HealthOutcomes == {"ok", "status", "abort", "refused", "garbled"}

\* A reply to POST /api/chat: kind says what the backend did, body is the
\* object the message content parses to when kind = "json".
Reply(kind, body) == [kind |-> kind, body |-> body]
NoReply == Reply("none", EmptyObject)

LlmRecord(alert_type) ==
    Object({<<"alert_type", alert_type>>, <<"project_id", Null>>,
            <<"instance_name", Null>>, <<"metric_labels", Obj("empty")>>,
            <<"threshold_percent", Null>>, <<"value_percent", Null>>,
            <<"policy_name", Null>>, <<"condition_name", Null>>,
            <<"violation_started_raw", Null>>, <<"gcp_alert_url", Null>>,
            <<"confidence", Num(70)>>, <<"missing_fields", Arr("empty")>>,
            <<"parse_method", Str("llm")>>})

JsonMemFull ==
    [LlmRecord(Str("add_memory_to_vm")) EXCEPT
        !["service_name"] = Str("mm-drb"),
        !["current_machine_type"] = Str("c2d-standard-2"),
        !["target_machine_type"] = Str("c2d-standard-4")]
JsonScale == [LlmRecord(Str("scaling_intent_detected")) EXCEPT !["service_name"] = Str("api")]
JsonUnknownType == LlmRecord(Str("network_latency_high"))
JsonNullType == LlmRecord(Null)
JsonNoType == [LlmRecord(Null) EXCEPT !["alert_type"] = Undef]
\* Fails the schema: confidence is a string, project_id is missing.
JsonInvalid ==
    [LlmRecord(Str("add_memory_to_vm")) EXCEPT
        !["confidence"] = Str("high"), !["project_id"] = Undef]
\* Passes the schema with a provenance tag and a confidence of the model's own.
JsonLoud ==
    [LlmRecord(Str("cpu_utilization_high")) EXCEPT
        !["confidence"] = Num(150), !["parse_method"] = Str("model")]

JsonBodies == {JsonMemFull, JsonScale, JsonUnknownType, JsonNullType,
               JsonNoType, JsonInvalid, JsonLoud}

Replies ==
    {Reply(k, EmptyObject) :
        k \in {"abort", "network", "network_eof", "status", "status_eof",
               "empty", "not_json"}}
    \cup {Reply("json", b) : b \in JsonBodies}

\* tryLLMWithModel(ollamaUrl, model, prompt) on a backend that answers with
\* reply.  outcome: "matched" ({parsed, matched: true}), "not_matched"
\* ({matched: false}), "retry" ({shouldRetry: true, error}) or "throw".
LLMOutcome(outcome, parsed, error) ==
    [outcome |-> outcome, parsed |-> parsed, error |-> error]

\* The branches of tryLLMWithModel that end without a message content: the
\* catch block and the !response.ok branch.
ChatFailure(model, reply) ==
    CASE reply.kind = "abort" ->
            LLMOutcome("retry", EmptyObject, "Request timed out")
      [] reply.kind = "network_eof" ->
            LLMOutcome("retry", EmptyObject, "EOF")
      [] reply.kind = "network" ->
            LLMOutcome("throw", EmptyObject, "fetch failed")
      [] reply.kind = "status_eof" ->
            LLMOutcome("retry", EmptyObject, "Model returned EOF error")
      [] reply.kind = "status" ->
            LLMOutcome("throw", EmptyObject, "Ollama API error")
      [] reply.kind = "empty" ->
            LLMOutcome("throw", EmptyObject, "Empty response from Ollama")
      [] OTHER ->
            LLMOutcome("retry", EmptyObject, "Invalid JSON response")

\* tryLLMWithModel from JSON.parse(content) on, for a content that parses.
ChatContent(model, reply) ==
    IF Nullish(reply.body["alert_type"])
    THEN LLMOutcome("not_matched", EmptyObject, "")
    ELSE LET v == validateParsedAlert(reply.body)
         IN IF v.threw
            THEN LLMOutcome("retry", EmptyObject, "Validation failed")
            ELSE LLMOutcome("matched", v.value, "")

\* Mutant: a null alert_type is handed to the schema like any other reply.
tryLLMWithModel_NullValidated(model, reply) ==
    IF reply.kind # "json" THEN ChatFailure(model, reply)
    ELSE IF validateParsedAlert(reply.body).threw
         THEN LLMOutcome("retry", EmptyObject, "Validation failed")
         ELSE LLMOutcome("matched", reply.body, "")

\* Mutant: a timed-out call is reported as not matched.
tryLLMWithModel_TimeoutEnds(model, reply) ==
    IF reply.kind = "abort" THEN LLMOutcome("not_matched", EmptyObject, "")
    ELSE IF reply.kind = "json" THEN ChatContent(model, reply)
    ELSE ChatFailure(model, reply)

\* Mutant: a record that fails the schema is reported as not matched.
tryLLMWithModel_InvalidEnds(model, reply) ==
    IF reply.kind # "json" THEN ChatFailure(model, reply)
    ELSE IF Nullish(reply.body["alert_type"]) \/ validateParsedAlert(reply.body).threw
         THEN LLMOutcome("not_matched", EmptyObject, "")
         ELSE LLMOutcome("matched", reply.body, "")

tryLLMWithModel(model, reply) ==
    IF reply.kind = "json" THEN ChatContent(model, reply)
    ELSE ChatFailure(model, reply)

\* Mutant: every listed model becomes a candidate, as listed.
BuildModelsToTry_EveryListed(available, acc) == acc \o available

\* The loop that builds modelsToTry from availableModels.
RECURSIVE BuildModelsToTry(_, _)
BuildModelsToTry(available, acc) ==
    IF available = <<>> THEN acc
    ELSE LET model == Head(available)
             keep == /\ model # primaryModel
                     /\ ~IsEmbedding(model)
                     /\ \A k \in 1..Len(acc) : acc[k] # model
         IN BuildModelsToTry(Tail(available), IF keep THEN Append(acc, model) ELSE acc)

\* policies.find(p => p.alert_type === alert_type) || null, as <<>> or <<p>>.
FindPolicy(policies, alert_type) ==
    LET hit == {i \in 1..Len(policies) : Str(policies[i].alert_type) = alert_type}
    IN IF hit = {} THEN <<>>
       ELSE <<policies[CHOOSE i \in hit : \A k \in hit : i <= k]>>

----------------------------------------------------------------------------
(* parseAlert *)

Env == [DISABLE_SCALING_INTENT_DETECTION : BOOLEAN,
        DISABLE_ADD_MEMORY_DETECTION : BOOLEAN]

\* The alert types the configuration denylists.
Denylist(e) ==
    (IF e.DISABLE_SCALING_INTENT_DETECTION THEN {"scaling_intent_detected"} ELSE {})
    \cup (IF e.DISABLE_ADD_MEMORY_DETECTION THEN {"add_memory_to_vm"} ELSE {})

\* Mutant: only DISABLE_SCALING_INTENT_DETECTION is looked at.
PolicyDenied_ScalingOnly(e, pr) ==
    /\ pr.policy # <<>>
    /\ e.DISABLE_SCALING_INTENT_DETECTION
    /\ pr.policy[1].alert_type = "scaling_intent_detected"

\* The checks on policyResult.policy?.alert_type.
PolicyDenied(e, pr) ==
    pr.policy # <<>> /\ pr.policy[1].alert_type \in Denylist(e)

\* The checks on llmResult.parsed?.alert_type.
ParsedDenied(e, parsed) ==
    parsed["alert_type"].t = "string" /\ parsed["alert_type"].s \in Denylist(e)

\* hasServiceName && hasCurrentMachineType && hasTargetMachineType
HasCriticalFields(parsed) ==
    /\ Truthy(parsed["service_name"]) \/ Truthy(parsed["serviceName"])
    /\ Truthy(parsed["current_machine_type"]) \/ Truthy(parsed["currentMachineType"])
    /\ Truthy(parsed["target_machine_type"]) \/ Truthy(parsed["targetMachineType"])

\* Mutant: the critical-field check runs for every alert type.
FallsThrough_AnyType(pr) == pr.matched /\ ~HasCriticalFields(pr.parsed)

\* The policy matched, but parseAlert goes on to the model-backed parser.
FallsThrough(pr) ==
    /\ pr.matched
    /\ pr.parsed["alert_type"] = Str("add_memory_to_vm")
    /\ ~HasCriticalFields(pr.parsed)

\* What parseAlert returns: status is "pending" while the call runs,
\* "returned" or "threw" once it is over; policy is <<>> or <<p>>;
\* modelUsed and error are "" when the key is absent.
Result(status, matched, parsed, policy, modelUsed, error) ==
    [status |-> status, matched |-> matched, parsed |-> parsed,
     policy |-> policy, modelUsed |-> modelUsed, error |-> error]
Pending == Result("pending", FALSE, EmptyObject, <<>>, "", "")
Thrown == Result("threw", FALSE, EmptyObject, <<>>, "", "")
Suppressed == Result("returned", FALSE, EmptyObject, <<>>, "", "")

\* What tryLLMParsing returns; called is FALSE until it has returned.
LlmResult(matched, parsed, policy, modelUsed, error) ==
    [called |-> TRUE, matched |-> matched, parsed |-> parsed,
     policy |-> policy, modelUsed |-> modelUsed, error |-> error]
NoLlmResult ==
    [called |-> FALSE, matched |-> FALSE, parsed |-> EmptyObject,
     policy |-> <<>>, modelUsed |-> "", error |-> ""]

\* Mutant: the spreads are swapped, so the policy's defaults win.
MergeLlm_DefaultsWin(extraction_rules, parsed) ==
    [Spread(parsed, extraction_rules) EXCEPT !["parse_method"] = Str("llm")]

\* { ...policyResult.policy.extraction_rules, ...llmResult.parsed, parse_method: "llm" }
MergeLlm(extraction_rules, parsed) ==
    [Spread(extraction_rules, parsed) EXCEPT !["parse_method"] = Str("llm")]

\* Mutant: a text that was handled before is suppressed as a repeat.
ParseAlertAfterLLM_RepeatSuppressed(e, pr, llm) ==
    IF firstResult # Pending THEN Suppressed
    ELSE
        IF llm.matched
        THEN IF ParsedDenied(e, llm.parsed) THEN Suppressed
             ELSE IF pr.matched /\ pr.policy # <<>>
                  THEN LET v == validateParsedAlert(
                                    MergeLlm(pr.policy[1].extraction_rules, llm.parsed))
                       IN IF v.threw THEN Thrown
                          ELSE Result("returned", TRUE, v.value, pr.policy, llm.modelUsed, "")
                  ELSE Result("returned", TRUE, llm.parsed, llm.policy, llm.modelUsed, "")
        ELSE Result("returned", FALSE, EmptyObject, <<>>, "",
                    "Could not parse alert with policy or LLM")

\* Mutant: when the model does not match, the policy match is returned.
ParseAlertAfterLLM_PolicyFallback(e, pr, llm) ==
    IF llm.matched
    THEN IF ParsedDenied(e, llm.parsed) THEN Suppressed
         ELSE IF pr.matched /\ pr.policy # <<>>
              THEN LET v == validateParsedAlert(
                                MergeLlm(pr.policy[1].extraction_rules, llm.parsed))
                   IN IF v.threw THEN Thrown
                      ELSE Result("returned", TRUE, v.value, pr.policy, llm.modelUsed, "")
              ELSE Result("returned", TRUE, llm.parsed, llm.policy, llm.modelUsed, "")
    ELSE IF pr.matched
         THEN Result("returned", TRUE, pr.parsed, pr.policy, "", "")
         ELSE Result("returned", FALSE, EmptyObject, <<>>, "",
                     "Could not parse alert with policy or LLM")

\* parseAlert from the return of tryLLMParsing to its own return.
ParseAlertAfterLLM(e, pr, llm) ==
    IF llm.matched
    THEN IF ParsedDenied(e, llm.parsed) THEN Suppressed
         ELSE IF pr.matched /\ pr.policy # <<>>
              THEN LET v == validateParsedAlert(
                                MergeLlm(pr.policy[1].extraction_rules, llm.parsed))
                   IN IF v.threw THEN Thrown
                      ELSE Result("returned", TRUE, v.value, pr.policy, llm.modelUsed, "")
              ELSE Result("returned", TRUE, llm.parsed, llm.policy, llm.modelUsed, "")
    ELSE Result("returned", FALSE, EmptyObject, <<>>, "",
                "Could not parse alert with policy or LLM")

\* parseAlert up to its first await: the policy-based parser, the denylist
\* and the critical-field check.
ParsePolicyStage ==
    /\ pc = "start"
    /\ policyResult' = tryPolicyParsing(policiesCache[1], text)
    /\ LET pr == policyResult'
       IN    IF pr.threw
             THEN result' = Thrown /\ pc' = "done"
             ELSE IF pr.matched /\ PolicyDenied(env, pr)
             THEN result' = Suppressed /\ pc' = "done"
             ELSE IF pr.matched /\ ~FallsThrough(pr)
             THEN /\ result' = Result("returned", TRUE, pr.parsed, pr.policy, "", "")
                  /\ pc' = "done"
             ELSE result' = result /\ pc' = "health"
    /\ UNCHANGED <<policiesCache, env, text, availableModels, modelsToTry,
                   modelIdx, errors, lastReply, healthCalls, chatCalls,
                   llmResult, decideVars, extVars>>

\* tryLLMParsing returns llm and parseAlert runs to its end.
Finish(llm) ==
    /\ llmResult' = llm
    /\ result' = ParseAlertAfterLLM(env, policyResult, llm)
    /\ pc' = "done"

NotMatchedLlm(error) == LlmResult(FALSE, EmptyObject, <<>>, "", error)

\* Mutant: an empty catalogue is not checked, the preferred model is tried.
HealthOutcome_EmptyCatalogueTried(outcome, models) ==
          CASE outcome = "status" ->
                 /\ models = <<>>
                 /\ Finish(NotMatchedLlm("Ollama server not accessible"))
                 /\ UNCHANGED <<availableModels, modelsToTry, modelIdx>>
            [] outcome = "abort" ->
                 /\ models = <<>>
                 /\ Finish(NotMatchedLlm("Ollama health check timed out"))
                 /\ UNCHANGED <<availableModels, modelsToTry, modelIdx>>
            [] outcome \in {"refused", "garbled"} ->
                 /\ models = <<>>
                 /\ Finish(NotMatchedLlm("Cannot connect to Ollama"))
                 /\ UNCHANGED <<availableModels, modelsToTry, modelIdx>>
            [] OTHER ->
                 /\ availableModels' = models
                 /\ modelsToTry' = BuildModelsToTry(models, <<primaryModel>>)
                 /\ modelIdx' = 1
                 /\ pc' = "chat"
                 /\ UNCHANGED <<llmResult, result>>

\* What tryLLMParsing does once GET /api/tags has ended with outcome and,
\* for "ok", the catalogue models.
HealthOutcome(outcome, models) ==
          CASE outcome = "status" ->
                 /\ models = <<>>
                 /\ Finish(NotMatchedLlm("Ollama server not accessible"))
                 /\ UNCHANGED <<availableModels, modelsToTry, modelIdx>>
            [] outcome = "abort" ->
                 /\ models = <<>>
                 /\ Finish(NotMatchedLlm("Ollama health check timed out"))
                 /\ UNCHANGED <<availableModels, modelsToTry, modelIdx>>
            [] outcome \in {"refused", "garbled"} ->
                 /\ models = <<>>
                 /\ Finish(NotMatchedLlm("Cannot connect to Ollama"))
                 /\ UNCHANGED <<availableModels, modelsToTry, modelIdx>>
            [] OTHER ->
                 /\ availableModels' = models
                 /\ IF models = <<>>
                    THEN /\ Finish(NotMatchedLlm("No models available in Ollama"))
                         /\ UNCHANGED <<modelsToTry, modelIdx>>
                    ELSE /\ modelsToTry' = BuildModelsToTry(models, <<primaryModel>>)
                         /\ modelIdx' = 1
                         /\ pc' = "chat"
                         /\ UNCHANGED <<llmResult, result>>

\* tryLLMParsing: the health check and the enumeration of the models.
HealthCheck ==
    /\ pc = "health"
    /\ healthCalls' = healthCalls + 1
    /\ \E outcome \in HealthOutcomes, models \in Catalogues :
          HealthOutcome(outcome, models)
    /\ UNCHANGED <<policiesCache, env, text, policyResult, errors, lastReply,
                   chatCalls, decideVars, extVars>>

\* An entry of errors, `${model}: ${error}`: the model and how its failure
\* reached the loop ("shouldRetry": returned by tryLLMWithModel, "caught":
\* thrown by it); the wording of the message is left out.
ErrorEntry(model, r) ==
    [model |-> model,
     how |-> IF r.outcome = "throw" THEN "caught" ELSE "shouldRetry"]

\* What the loop over modelsToTry does once the chat call to the candidate
\* has ended with reply.
ChatOutcome(reply) ==
         LET model == modelsToTry[modelIdx]
             r == tryLLMWithModel(model, reply)
             failed == Append(errors, ErrorEntry(model, r))
         IN /\ lastReply' = reply
            /\ chatCalls' = Append(chatCalls, model)
            /\ CASE r.outcome = "matched" ->
                      /\ Finish(LlmResult(TRUE, r.parsed,
                                          FindPolicy(policiesCache[1], r.parsed["alert_type"]),
                                          model, ""))
                      /\ UNCHANGED <<errors, modelIdx>>
                 [] r.outcome = "not_matched" ->
                      /\ Finish(NotMatchedLlm(""))
                      /\ UNCHANGED <<errors, modelIdx>>
                 [] OTHER ->
                      /\ errors' = failed
                      /\ IF modelIdx < Len(modelsToTry)
                         THEN /\ modelIdx' = modelIdx + 1
                              /\ pc' = "chat"
                              /\ UNCHANGED <<llmResult, result>>
                         ELSE /\ Finish(NotMatchedLlm("All models failed"))
                              /\ UNCHANGED modelIdx

\* One turn of the loop over modelsToTry: the chat call to the candidate and
\* what tryLLMParsing does with its outcome.
ChatCall ==
    /\ pc = "chat"
    /\ \E reply \in Replies : ChatOutcome(reply)
    /\ UNCHANGED <<policiesCache, env, text, policyResult, availableModels,
                   modelsToTry, healthCalls, decideVars, extVars>>

----------------------------------------------------------------------------
(* Decision engine *)

\* The characters of the strings whose prefixes and substrings matter to the
\* decision rules of the model.
Chars(x) ==
    CASE x = "" -> <<>>
      [] x = "-" -> <<"-">>
      [] x = "web" -> <<"w", "e", "b">>
      [] x = "-web-1" -> <<"-", "w", "e", "b", "-", "1">>
      [] x = "web-1" -> <<"w", "e", "b", "-", "1">>
      [] x = "db-1" -> <<"d", "b", "-", "1">>
      [] x = "db" -> <<"d", "b">>
      [] x = "80" -> <<"8", "0">>
      [] x = "8" -> <<"8">>
      [] x = "null" -> <<"n", "u", "l", "l">>
      [] x = "undefined" -> <<"u", "n", "d", "e", "f", "i", "n", "e", "d">>
      [] x = "disk" -> <<"d", "i", "s", "k">>
      \* any other string is one opaque character
      [] OTHER -> <<x>>

\* String(value)
StringOf(v) ==
    CASE v.t = "string" -> v.s
      [] v.t = "number" -> (IF v.n = 8000 THEN "80" ELSE IF v.n = 0 THEN "0" ELSE "n")
      [] v.t = "null" -> "null"
      [] v.t = "undefined" -> "undefined"
      [] v.t = "nan" -> "NaN"
      [] v.t = "object" -> "[object Object]"
      [] OTHER -> ""

\* a.startsWith(b), a.includes(b)
StartsWith(a, b) ==
    /\ Len(Chars(b)) <= Len(Chars(a))
    /\ SubSeq(Chars(a), 1, Len(Chars(b))) = Chars(b)
Includes(a, b) ==
    \E k \in 0..(Len(Chars(a)) - Len(Chars(b))) :
        SubSeq(Chars(a), k + 1, k + Len(Chars(b))) = Chars(b)

\* The regular expressions decision rules use in the model: "^-", "web" and
\* "(", which new RegExp rejects.
RegexTest(source, x) ==
    CASE source = "^-" -> StartsWith(x, "-")
      [] source = "web" -> Includes(x, "web")
      [] OTHER -> FALSE

\* a === b for JSON values: objects and arrays are never identical, NaN is
\* not equal to itself.
StrictEquals(a, b) == a.t \notin {"object", "array", "nan"} /\ a = b

\* A field condition: shape is "null" (null or undefined), "object" (an
\* object with the keys among startsWith, equals, contains, matches that are
\* not Undef) or "literal" (any other value, in literal).
FieldCondition(shape, startsWith, equals, contains, matches, literal) ==
    [shape |-> shape, startsWith |-> startsWith, equals |-> equals,
     contains |-> contains, matches |-> matches, literal |-> literal]
IsNullCond == FieldCondition("null", Undef, Undef, Undef, Undef, Undef)
StartsWithCond(x) == FieldCondition("object", x, Undef, Undef, Undef, Undef)
EqualsCond(x) == FieldCondition("object", Undef, x, Undef, Undef, Undef)
ContainsCond(x) == FieldCondition("object", Undef, Undef, x, Undef, Undef)
MatchesCond(x) == FieldCondition("object", Undef, Undef, Undef, x, Undef)
UnknownCond == FieldCondition("object", Undef, Undef, Undef, Undef, Undef)
LiteralCond(x) == FieldCondition("literal", Undef, Undef, Undef, Undef, x)

\* Mutant: an object with none of the four operators passes.
EvalFieldCondition_UnknownPasses(fc, fieldValue) ==
    CASE fc.shape = "null" ->
            IF Nullish(fieldValue) THEN "continue" ELSE "false"
      [] fc.shape = "object" ->
            IF Truthy(fc.startsWith)
            THEN IF ~Truthy(fieldValue)
                    \/ ~StartsWith(StringOf(fieldValue), StringOf(fc.startsWith))
                 THEN "false" ELSE "continue"
            ELSE IF Truthy(fc.equals)
            THEN IF ~StrictEquals(fieldValue, fc.equals) THEN "false" ELSE "continue"
            ELSE IF Truthy(fc.contains)
            THEN IF ~Truthy(fieldValue)
                    \/ ~Includes(StringOf(fieldValue), StringOf(fc.contains))
                 THEN "false" ELSE "continue"
            ELSE IF Truthy(fc.matches)
            THEN IF ~RegexCompiles(StringOf(fc.matches)) THEN "throw"
                 ELSE IF ~Truthy(fieldValue)
                         \/ ~RegexTest(StringOf(fc.matches), StringOf(fieldValue))
                      THEN "false" ELSE "continue"
            ELSE "continue"
      [] OTHER ->
            IF ~StrictEquals(fieldValue, fc.literal) THEN "false" ELSE "continue"

\* One turn of the loop of evaluateCondition: "continue", "false" (return
\* false) or "throw".
EvalFieldCondition(fc, fieldValue) ==
    CASE fc.shape = "null" ->
            IF Nullish(fieldValue) THEN "continue" ELSE "false"
      [] fc.shape = "object" ->
            IF Truthy(fc.startsWith)
            THEN IF ~Truthy(fieldValue)
                    \/ ~StartsWith(StringOf(fieldValue), StringOf(fc.startsWith))
                 THEN "false" ELSE "continue"
            ELSE IF Truthy(fc.equals)
            THEN IF ~StrictEquals(fieldValue, fc.equals) THEN "false" ELSE "continue"
            ELSE IF Truthy(fc.contains)
            THEN IF ~Truthy(fieldValue)
                    \/ ~Includes(StringOf(fieldValue), StringOf(fc.contains))
                 THEN "false" ELSE "continue"
            ELSE IF Truthy(fc.matches)
            THEN IF ~RegexCompiles(StringOf(fc.matches)) THEN "throw"
                 ELSE IF ~Truthy(fieldValue)
                         \/ ~RegexTest(StringOf(fc.matches), StringOf(fieldValue))
                      THEN "false" ELSE "continue"
            ELSE "false"
      [] OTHER ->
            IF ~StrictEquals(fieldValue, fc.literal) THEN "false" ELSE "continue"

\* The loop of evaluateCondition over Object.entries(condition), a sequence
\* of <<field, fieldCondition>>: "true", "false" or "throw".
RECURSIVE ConditionLoop(_, _)
ConditionLoop(entries, parsed) ==
    IF entries = <<>> THEN "true"
    ELSE LET step == EvalFieldCondition(Head(entries)[2], parsed[Head(entries)[1]])
         IN IF step = "continue" THEN ConditionLoop(Tail(entries), parsed) ELSE step

\* A condition: isObject is FALSE for a missing condition or one that is not
\* an object.
Condition(isObject, entries) == [isObject |-> isObject, entries |-> entries]

evaluateCondition(condition, parsed) ==
    IF ~condition.isObject THEN "false" ELSE ConditionLoop(condition.entries, parsed)

Rule(condition, decision) == [condition |-> condition, decision |-> decision]

\* What decide does: status "returned" with { decision }, or "threw".
Decided(decision) == [status |-> "returned", decision |-> decision]
DecideThrew == [status |-> "threw", decision |-> Undef]
NoDecision == [status |-> "idle", decision |-> Undef]

\* Mutant: the loop does not return at the first match, so the last rule
\* that matches decides.
RECURSIVE RuleLoop_LastWins(_, _, _)
RuleLoop_LastWins(rules, parsed, fallback) ==
    IF rules = <<>> THEN fallback
    ELSE LET holds == evaluateCondition(Head(rules).condition, parsed)
         IN CASE holds = "true" ->
                   RuleLoop_LastWins(Tail(rules), parsed, Decided(Head(rules).decision))
              [] holds = "throw" -> DecideThrew
              [] OTHER -> RuleLoop_LastWins(Tail(rules), parsed, fallback)

\* The loop of decide over policy.decision_rules.
RECURSIVE RuleLoop(_, _, _)
RuleLoop(rules, parsed, fallback) ==
    IF rules = <<>> THEN fallback
    ELSE LET holds == evaluateCondition(Head(rules).condition, parsed)
         IN CASE holds = "true" -> Decided(Head(rules).decision)
              [] holds = "throw" -> DecideThrew
              [] OTHER -> RuleLoop(Tail(rules), parsed, fallback)

\* A policy as decide reads it; hasRules is FALSE when decision_rules is
\* missing or not an array.
DecisionPolicy(hasRules, decision_rules, default_decision) ==
    [hasRules |-> hasRules, decision_rules |-> decision_rules,
     default_decision |-> default_decision]

\* Mutant: default_decision is not read, the fallback is always NO_ACTION.
decide_DefaultIgnored(parsed, policy) ==
    IF policy = <<>> THEN Decided(Str("NO_ACTION"))
    ELSE IF policy[1].hasRules
         THEN RuleLoop(policy[1].decision_rules, parsed, Decided(Str("NO_ACTION")))
         ELSE Decided(Str("NO_ACTION"))

\* decide(parsed, policy); policy is <<>> (null) or <<p>>.
decide(parsed, policy) ==
    IF policy = <<>> THEN Decided(Str("NO_ACTION"))
    ELSE LET p == policy[1]
             fallback == IF Truthy(p.default_decision)
                         THEN Decided(p.default_decision)
                         ELSE Decided(Str("NO_ACTION"))
         IN IF p.hasRules THEN RuleLoop(p.decision_rules, parsed, fallback)
            ELSE fallback

----------------------------------------------------------------------------
(* Action/Report Formatter: strings and plain templates *)

\* A string is a sequence of pieces: literal text, a placeholder "{key}", or
\* one of the two-character groups "$$" and "$&", which are plain text in a
\* template but have a meaning in the replacement argument of replace().
Lit(x) == [k |-> "lit", v |-> x]
Ph(key) == [k |-> "ph", v |-> key]
Sub(x) == [k |-> "sub", v |-> x]

\* The pieces of the strings the model uses; any other string is one
\* literal piece and the empty string has none.
TokensOf(x) ==
    CASE x = "" -> <<>>
      [] x = "pid-$$" -> <<Lit("pid-"), Sub("$$")>>
      [] x = "$&" -> <<Sub("$&")>>
      [] x = "{project_id}" -> <<Ph("project_id")>>
      [] OTHER -> <<Lit(x)>>

\* A value that is a string or null: the result of formatActionTemplate,
\* report.action, report.summary.
Text(toks) == [isNull |-> FALSE, toks |-> toks]
NullText == [isNull |-> TRUE, toks |-> <<>>]
\* !!text
TextTruthy(str) == ~str.isNull /\ str.toks # <<>>

\* The replacement string as replace() reads it against the match "{key}":
\* "$$" inserts "$" and "$&" inserts the matched text.
ExpandReplacement(toks, key) ==
    [i \in 1..Len(toks) |->
        CASE toks[i] = Sub("$$") -> Lit("$")
          [] toks[i] = Sub("$&") -> Ph(key)
          [] OTHER -> toks[i]]

\* str.replace(new RegExp(`\\{${key}\\}`, "g"), replacement)
RECURSIVE ReplaceAll(_, _, _)
ReplaceAll(str, key, replacement) ==
    IF str = <<>> THEN <<>>
    ELSE (IF Head(str) = Ph(key) THEN ExpandReplacement(replacement, key)
          ELSE <<Head(str)>>)
         \o ReplaceAll(Tail(str), key, replacement)

\* str.replace("{key}", replacement): the first occurrence only.
RECURSIVE ReplaceFirst(_, _, _)
ReplaceFirst(str, key, replacement) ==
    IF str = <<>> THEN <<>>
    ELSE IF Head(str) = Ph(key)
         THEN ExpandReplacement(replacement, key) \o Tail(str)
         ELSE <<Head(str)>> \o ReplaceFirst(Tail(str), key, replacement)

\* str.replace(/\{key\}/g, '')
RemoveAll(str, key) == SelectSeq(str, LAMBDA tok : tok # Ph(key))

\* str.includes("{key}")
HasPlaceholder(str, key) == \E i \in 1..Len(str) : str[i] = Ph(key)

\* for (const [key, value] of Object.entries(parsed)): keys is the order in
\* which the object lists its keys.
RECURSIVE ReplaceFields(_, _, _)
ReplaceFields(str, keys, parsed) ==
    IF keys = <<>> THEN str
    ELSE ReplaceFields(
            IF ~Nullish(parsed[Head(keys)])
            THEN ReplaceAll(str, Head(keys), TokensOf(StringOf(parsed[Head(keys)])))
            ELSE str,
            Tail(keys), parsed)

----------------------------------------------------------------------------
(* Action/Report Formatter: formatActionTemplate *)

\* a || b
Or(a, b) == IF Truthy(a) THEN a ELSE b

\* A template string: kind is "none" (missing or empty), "plain" (toks is
\* its text) or "mcp" ("MCP:" followed by the tool name).
Template(kind, tool, toks) == [kind |-> kind, tool |-> tool, toks |-> toks]
NoTemplate == Template("none", "", <<>>)
PlainTemplate(toks) == Template("plain", "", toks)
McpTemplate(tool) == Template("mcp", tool, <<>>)

\* What a call into mcpClient.js meets once ENABLE_MCP is on: the tool
\* returns a diff, returns an empty diff, or fails.  The same draw decides
\* whether readFileSync finds config/scale_pr.sh ("diff") or throws.
ToolOutcomes == {"diff", "empty", "failed"}

\* What formatActionTemplate did: threw, or returned value after calling
\* the remote tools in calls.
Rendered(value, calls) == [threw |-> FALSE, value |-> value, calls |-> calls]
RenderThrew == [threw |-> TRUE, value |-> NullText, calls |-> <<>>]

\* generateTerragruntAutoscalerDiff / generateMachineTypeDiff and the three
\* strings the formatter makes of their outcome.
RemoteDiff(tool, what, mcpOn, outcome) ==
    IF ~mcpOn
    THEN Rendered(Text(<<Lit("Error generating"), Lit(what), Lit("MCP is not enabled")>>), <<>>)
    ELSE IF outcome = "diff"
    THEN Rendered(Text(<<Lit("Generated"), Lit(what), Lit("diff")>>), <<tool>>)
    ELSE Rendered(Text(<<Lit("Failed to generate"), Lit(what)>>), <<tool>>)

\* The scaling-schedule parameters read from parsed.
ScheduleParams(parsed) ==
    [schedule |-> Or(parsed["schedule"], Null),
     duration |-> Or(parsed["duration_sec"], Null),
     name |-> Or(parsed["schedule_name"], Null)]
ScheduleParamsMissing(parsed) ==
    LET q == ScheduleParams(parsed)
    IN ~Truthy(q.schedule) \/ ~Truthy(q.duration) \/ ~Truthy(q.name)

\* formatActionTemplate for a template that starts with "MCP:".
FormatMcpTemplate(tool, parsed, isGitPR, gcloudCommandTemplate, mcpOn, outcome) ==
    CASE isGitPR /\ tool = "generate_terragrunt_autoscaler_diff" ->
            Rendered(Text(<<Lit("I need the following information"), Lit("SCALEPRREQUEST")>>), <<>>)
      [] tool = "execute_gcloud_scale_up" ->
            IF gcloudCommandTemplate = <<>>
            THEN Rendered(Text(<<Lit("*GCP Scale-Up Command:*"),
                                 Lit("No gcloud command template found in policy")>>), <<>>)
            ELSE Rendered(Text(<<Lit("*GCP Scale-Up Command:*")>> \o gcloudCommandTemplate
                               \o <<Lit("Ready to execute when approved")>>), <<>>)
      [] tool = "generate_terragrunt_autoscaler_diff" ->
            RemoteDiff(tool, "autoscaler", mcpOn, outcome)
      [] tool = "generate_machine_type_diff" ->
            LET serviceName == Or(Or(parsed["service_name"], parsed["serviceName"]), Null)
                current == Or(Or(parsed["current_machine_type"], parsed["currentMachineType"]), Null)
                target == Or(Or(parsed["target_machine_type"], parsed["targetMachineType"]), Null)
            IN IF Truthy(serviceName) /\ serviceName.t # "string"
               THEN RenderThrew
               ELSE IF ~Truthy(serviceName) \/ ~Truthy(current) \/ ~Truthy(target)
               THEN Rendered(Text(<<Lit("Missing required parameters"),
                                    Lit("for machine type change")>>), <<>>)
               ELSE RemoteDiff(tool, "machine type", mcpOn, outcome)
      [] tool = "generate_scaling_schedule_yaml_diff" ->
            IF ScheduleParamsMissing(parsed)
            THEN Rendered(Text(<<Lit("Missing required parameters"),
                                 Lit("for scaling schedule")>>), <<>>)
            ELSE IF outcome = "diff"
                    /\ ScheduleParams(parsed).name.t = "string"
                    /\ ScheduleParams(parsed).schedule.t = "string"
            THEN Rendered(Text(<<Lit("*Script that will be executed:*")>>), <<>>)
            ELSE Rendered(Text(<<Lit("Error preparing"), Lit("scaling schedule script")>>), <<>>)
      [] tool = "create_scaling_schedule_pr" ->
            IF ScheduleParamsMissing(parsed)
            THEN Rendered(Text(<<Lit("Missing required parameters"), Lit(". Need:")>>), <<>>)
            ELSE Rendered(Text(<<Lit("*PR that will be created (via GitHub API):*")>>), <<>>)
      [] OTHER -> Rendered(Text(<<Lit("MCP tool:"), Lit(tool)>>), <<>>)

\* formatActionTemplate(template, parsed, originalText, isGitPR,
\* gcloudCommandTemplate, policy); keys is the key order of parsed.
formatActionTemplate(template, parsed, keys, isGitPR, gcloudCommandTemplate, mcpOn, outcome) ==
    CASE template.kind = "none" -> Rendered(NullText, <<>>)
      [] template.kind = "mcp" ->
            FormatMcpTemplate(template.tool, parsed, isGitPR, gcloudCommandTemplate,
                              mcpOn, outcome)
      [] OTHER -> Rendered(Text(ReplaceFields(template.toks, keys, parsed)), <<>>)

\* formatSummaryTemplate(template, actionOptions, parsed); template is a
\* string, actionOptions a string or null.
formatSummaryTemplate(template, actionOptions, parsed, keys) ==
    IF template = <<>>
    THEN (IF TextTruthy(actionOptions) THEN actionOptions
          ELSE Text(<<Lit("No action template available")>>))
    ELSE LET shown == IF TextTruthy(actionOptions) THEN actionOptions.toks
                      ELSE <<Lit("No actions available")>>
             first == ReplaceFirst(template, "action_options", shown)
             filled == ReplaceFields(first, keys, parsed)
         IN Text(IF HasPlaceholder(template, "action") /\ TextTruthy(actionOptions)
                 THEN ReplaceFirst(filled, "action", actionOptions.toks)
                 ELSE filled)

----------------------------------------------------------------------------
(* Action/Report Formatter: formatReport *)

\* An entry of policy.action_templates; gcloud_command_template is a string
\* (<<>> when missing), label and description are values.
ActionTemplate(label, description, template, gcloud_command_template) ==
    [label |-> label, description |-> description, template |-> template,
     gcloud_command_template |-> gcloud_command_template]

\* A policy as formatReport reads it; hasTemplates says that
\* action_templates is an array, summary_template is <<>> when missing.
ReportPolicy(alert_type, hasTemplates, action_templates, action_template, summary_template) ==
    [alert_type |-> alert_type, hasTemplates |-> hasTemplates,
     action_templates |-> action_templates, action_template |-> action_template,
     summary_template |-> summary_template]

\* policy.alert_type === "scaling_intent_detected" && (the label mentions
\* "git pr" || the template names terragrunt_autoscaler_diff and not
\* execute_gcloud)
IsGitPR(policy, actionTemplate) ==
    /\ policy.alert_type = "scaling_intent_detected"
    /\ \/ actionTemplate.label = Str("Create Git PR")
       \/ /\ actionTemplate.template.kind = "mcp"
          /\ actionTemplate.template.tool = "generate_terragrunt_autoscaler_diff"

\* An entry of actionList.
Option(actionTemplate, formattedAction) ==
    [label |-> Or(actionTemplate.label, Str("Action")),
     description |-> Or(actionTemplate.description, Str("")),
     template |-> actionTemplate.template,
     gcloudCommandTemplate |-> actionTemplate.gcloud_command_template,
     action |-> formattedAction]

\* The loop over policy.action_templates from entry i on; acc is
\* [threw, list, calls].
RECURSIVE RenderOptions(_, _, _, _, _, _, _)
RenderOptions(policy, i, parsed, keys, mcpOn, outs, acc) ==
    IF i > Len(policy.action_templates) THEN acc
    ELSE LET actionTemplate == policy.action_templates[i]
             r == formatActionTemplate(actionTemplate.template, parsed, keys,
                                       IsGitPR(policy, actionTemplate),
                                       actionTemplate.gcloud_command_template,
                                       mcpOn, outs[i])
         IN IF r.threw THEN [acc EXCEPT !.threw = TRUE]
            ELSE RenderOptions(policy, i + 1, parsed, keys, mcpOn, outs,
                    [acc EXCEPT
                        !.list = IF TextTruthy(r.value)
                                 THEN Append(@, Option(actionTemplate, r.value.toks))
                                 ELSE @,
                        !.calls = @ \o r.calls])

\* actionList.map(...).join: "*Option n: label*", then each option's action.
RECURSIVE OptionsText(_)
OptionsText(list) ==
    IF list = <<>> THEN <<>>
    ELSE <<Lit("*Option"), Lit(Head(list).label.s)>>
         \o (IF Truthy(Head(list).description) THEN <<Lit(Head(list).description.s)>>
             ELSE <<>>)
         \o Head(list).action
         \o OptionsText(Tail(list))

\* What formatReport did: status "returned" with the report, or "threw".
\* actionOptions = <<>> stands for null; calls are the remote tools called.
Report(status, action, actionOptions, summary, mcp_executed, calls) ==
    [status |-> status, action |-> action, actionOptions |-> actionOptions,
     summary |-> summary, mcp_executed |-> mcp_executed, calls |-> calls]
NoReport == Report("idle", NullText, <<>>, NullText, FALSE, <<>>)
ReportThrew == Report("threw", NullText, <<>>, NullText, FALSE, <<>>)

\* The summary of formatReport from action, actionOptions and actionList.
ReportSummary(policy, action, actionOptions, hasMultipleOptions, parsed, keys) ==
    LET given == IF policy = <<>> THEN <<>> ELSE policy[1].summary_template
        summaryTemplate == IF hasMultipleOptions
                           THEN RemoveAll(RemoveAll(given, "action_options"), "action")
                           ELSE given
        shown == IF TextTruthy(actionOptions) THEN actionOptions ELSE action
    IN IF summaryTemplate # <<>>
       THEN formatSummaryTemplate(summaryTemplate,
                                  IF hasMultipleOptions THEN NullText ELSE shown,
                                  parsed, keys)
       ELSE IF hasMultipleOptions THEN NullText
       ELSE IF TextTruthy(shown) THEN shown
       ELSE Text(<<Lit("Approval required")>>)

\* formatReport({ parsed, decision, policy }); outs[i] is what the remote
\* tool of option i does.
formatReport(args, mcpOn, outs) ==
    LET parsed == args.parsed
        keys == args.keys
        policy == args.policy
    IN IF policy # <<>> /\ policy[1].hasTemplates
       THEN LET done == RenderOptions(policy[1], 1, parsed, keys, mcpOn, outs,
                                      [threw |-> FALSE, list |-> <<>>, calls |-> <<>>])
                action == IF done.list # <<>> THEN Text(OptionsText(done.list))
                          ELSE NullText
            IN IF done.threw THEN ReportThrew
               ELSE Report("returned", action, done.list,
                           ReportSummary(policy, action, action, done.list # <<>>,
                                         parsed, keys),
                           FALSE, done.calls)
       ELSE IF policy # <<>> /\ policy[1].action_template.kind # "none"
       THEN LET r == formatActionTemplate(policy[1].action_template, parsed, keys,
                                          FALSE, <<>>, mcpOn, outs[1])
            IN IF r.threw THEN ReportThrew
               ELSE Report("returned", r.value, <<>>,
                           ReportSummary(policy, r.value, r.value, FALSE, parsed, keys),
                           FALSE, r.calls)
       ELSE Report("returned", NullText, <<>>,
                   ReportSummary(policy, NullText, NullText, FALSE, parsed, keys),
                   FALSE, <<>>)

----------------------------------------------------------------------------
(* The earlier formatter (part_003) and executeMCPAction *)

\* The earlier formatActionTemplate: plain replacement for every template.
formatActionTemplateLegacy(template, parsed, keys) ==
    CASE template.kind = "none" -> NullText
      [] template.kind = "mcp" ->
            Text(ReplaceFields(<<Lit("MCP:"), Lit(template.tool)>>, keys, parsed))
      [] OTHER -> Text(ReplaceFields(template.toks, keys, parsed))

\* The remote tools executeMCPAction calls with ENABLE_MCP on; it catches
\* every failure and returns.
executeMCPAction(parsed, outcome) ==
    IF ~Truthy(parsed["instance_name"]) THEN <<>>
    ELSE IF outcome = "diff"
    THEN <<"discover_instance_metadata", "execute_recreate_instance">>
    ELSE <<"discover_instance_metadata">>

formatReportLegacy(args, mcpOn, outs) ==
    LET parsed == args.parsed
        policy == args.policy
        action == IF policy = <<>> THEN NullText
                  ELSE formatActionTemplateLegacy(policy[1].action_template,
                                                  parsed, args.keys)
        summary_template == IF policy = <<>> THEN <<>> ELSE policy[1].summary_template
        summary ==
            IF summary_template # <<>>
            THEN Text(ReplaceFields(
                        ReplaceFirst(summary_template, "action",
                                     IF TextTruthy(action) THEN action.toks
                                     ELSE <<Lit("No action")>>),
                        args.keys, parsed))
            ELSE IF TextTruthy(action) THEN action
            ELSE Text(<<Lit("Approval required")>>)
        executes == /\ args.decision = Str("AUTO_REPLACE")
                    /\ TextTruthy(action)
                    /\ mcpOn
    IN Report("returned", action, <<>>, summary, executes,
              IF executes THEN executeMCPAction(parsed, outs[1]) ELSE <<>>)

----------------------------------------------------------------------------
(* The app_mention handler: approve buttons *)

\* The error patterns of isActionValid, each anchored at the start of the
\* action string.
ErrorPatterns ==
    {"Missing required parameters", "Failed to generate", "Error generating",
     "MCP tool:"}

\* isActionValid(action) for an action string (a sequence of pieces).
isActionValid(action) ==
    /\ action # <<>>
    /\ ~(Head(action).k = "lit" /\ Head(action).v \in ErrorPatterns)

\* The approve buttons of the message: approve lists, in order, the option
\* index of each "Approve" button (0 for the single "Approve & Execute").
Posted(approve) == [posted |-> TRUE, approve |-> approve]
NotPosted == [posted |-> FALSE, approve |-> <<>>]

\* The option indices of actionOptions that get an approve button.
RECURSIVE OptionButtons(_, _)
OptionButtons(actionOptions, idx) ==
    IF idx > Len(actionOptions) THEN <<>>
    ELSE (IF isActionValid(actionOptions[idx].action) THEN <<idx>> ELSE <<>>)
         \o OptionButtons(actionOptions, idx + 1)

\* The buttons the handler builds from result.data = the report.
ApproveButtons(decision, data, disableApprovalButtons) ==
    LET needsApproval == decision = Str("NEEDS_APPROVAL") /\ TextTruthy(data.action)
        actionIsValid == needsApproval /\ isActionValid(data.action.toks)
        hasMultipleOptions == data.actionOptions # <<>>
    IN IF ~needsApproval THEN <<>>
       ELSE IF hasMultipleOptions /\ ~disableApprovalButtons
       THEN OptionButtons(data.actionOptions, 1)
       ELSE IF actionIsValid /\ ~disableApprovalButtons THEN <<0>>
       ELSE <<>>

\* The formatter has not been called.
ReportIdle ==
    /\ reportArgs = [parsed |-> EmptyObject, keys |-> <<>>,
                     decision |-> Undef, policy |-> <<>>]
    /\ enableMcp = FALSE
    /\ report = NoReport
    /\ blocks = NotPosted

\* The earlier decide of decide.js:95-105: the instance-name prefix alone
\* decides and the policy is not read.  parsed.instance_name?.startsWith
\* throws for a value that is neither nullish nor a string.
decideLegacy(parsed, policy) ==
    LET instance_name == parsed["instance_name"]
    IN IF Nullish(instance_name) THEN Decided(Str("NEEDS_APPROVAL"))
       ELSE IF instance_name.t # "string" THEN DecideThrew
       ELSE IF StartsWith(instance_name.s, "-") THEN Decided(Str("AUTO_REPLACE"))
       ELSE Decided(Str("NEEDS_APPROVAL"))

\* The earlier variants have not run.
LegacyIdle ==
    /\ dOutLegacy = NoDecision
    /\ legacyPolicyResult = NotMatched
    /\ legacyReport = NoReport

\* The Policy Store is not exercised: no source, no call.
\* No canned backend: the request is not one of a repeated pair.
NoCanned == [health |-> "none", models |-> <<>>, replies |-> <<>>]
TwiceIdle ==
    /\ canned = NoCanned /\ firstResult = Pending
    /\ promptPolicies = <<>> /\ lookupPolicies = <<>>

StoreIdle == policiesFile = PolicyFile("absent", <<>>) /\ loadOut = NoLoad

\* Approve clicks one message receives at most.
MaxApprovals == 2

\* The callers of getMCPClient: the handler of each approve click and, last,
\* a request whose formatReport asks for a machine-type diff.
Callers == 1..(MaxApprovals + 1)
DiffCaller == MaxApprovals + 1

\* A call of getMCPClient: where it is, and the state of the client at the
\* moment it was handed to the caller ("none" before).
NoCall == [pc |-> "idle", got |-> "none"]

\* mcpClient.js before any call: sdk tells whether the SDK can be imported,
\* client is "none" while let mcpClient is null.
NoMcp(sdk) ==
    [sdk |-> sdk, client |-> "none", spawns |-> 0,
     caller |-> [c \in Callers |-> NoCall]]

\* The approval message as posted: buttons shown, nothing clicked.
NoApproval ==
    [buttons |-> TRUE, approve |-> [i \in 1..MaxApprovals |-> "idle"],
     reject |-> "idle", executions |-> 0, rejected |-> FALSE,
     afterReject |-> FALSE]

\* No approval message and no MCP call.
SideIdle == mcp = NoMcp(FALSE) /\ approval = [NoApproval EXCEPT !.buttons = FALSE]

InitParse ==
    /\ LegacyIdle
    /\ TwiceIdle
    /\ SideIdle
    /\ ReportIdle
    /\ StoreIdle
    /\ policiesCache \in {<<policies>> : policies \in PolicySets}
    /\ env \in Env
    /\ text \in Texts
    /\ pc = "start"
    /\ policyResult = NotMatched
    /\ availableModels = <<>>
    /\ modelsToTry = <<>>
    /\ modelIdx = 0
    /\ errors = <<>>
    /\ lastReply = NoReply
    /\ healthCalls = 0
    /\ chatCalls = <<>>
    /\ llmResult = NoLlmResult
    /\ result = Pending
    /\ dParsed = EmptyObject
    /\ dPolicy = <<>>
    /\ dOut = NoDecision

NextParse == ParsePolicyStage \/ HealthCheck \/ ChatCall

SpecParse == InitParse /\ [][NextParse]_vars

----------------------------------------------------------------------------
(* parseAlert with the backend calls split at their awaits *)

\* Each fetch is split where the code awaits: the request is sent and the
\* timer armed (pc = "health_wait" / "chat_wait"); the response headers
\* arrive and clearTimeout runs (pc = "health_body" / "chat_body"); the body
\* is read.  The backend decides when headers and body arrive, the runtime
\* fires an armed timer.

StepFrame ==
    UNCHANGED <<policiesCache, env, text, policyResult, availableModels,
                modelsToTry, modelIdx, errors, lastReply, healthCalls,
                chatCalls, llmResult, result, decideVars, extVars>>

\* fetch(`${ollamaUrl}/api/tags`, { signal }) with the 5 s timer armed.
HealthSend ==
    /\ pc = "health"
    /\ pc' = "health_wait"
    /\ healthCalls' = healthCalls + 1
    /\ UNCHANGED <<policiesCache, env, text, policyResult, availableModels,
                   modelsToTry, modelIdx, errors, lastReply, chatCalls,
                   llmResult, result, decideVars, extVars>>

\* The 5 s timer fires while the fetch is pending: AbortError.
HealthTimeout ==
    /\ pc = "health_wait"
    /\ HealthOutcome("abort", <<>>)
    /\ UNCHANGED <<policiesCache, env, text, policyResult, errors, lastReply,
                   healthCalls, chatCalls, decideVars, extVars>>

\* The fetch settles: it rejects, or the headers arrive and clearTimeout
\* runs; a non-2xx status returns at once, otherwise json() is awaited.
HealthHeaders ==
    /\ pc = "health_wait"
    /\ \/ /\ \E outcome \in {"status", "refused"} : HealthOutcome(outcome, <<>>)
          /\ UNCHANGED <<policiesCache, env, text, policyResult, errors, lastReply,
                         healthCalls, chatCalls, decideVars, extVars>>
       \/ /\ pc' = "health_body"
          /\ StepFrame

\* healthCheck.json() settles.
HealthBody ==
    /\ pc = "health_body"
    /\ \/ HealthOutcome("garbled", <<>>)
       \/ \E models \in Catalogues : HealthOutcome("ok", models)
    /\ UNCHANGED <<policiesCache, env, text, policyResult, errors, lastReply,
                   healthCalls, chatCalls, decideVars, extVars>>

\* fetch(`${ollamaUrl}/api/chat`, { signal }) with the 30 s timer armed.
ChatSend ==
    /\ pc = "chat"
    /\ pc' = "chat_wait"
    /\ StepFrame

\* The 30 s timer fires while the fetch is pending: AbortError.
ChatTimeout ==
    /\ pc = "chat_wait"
    /\ ChatOutcome(Reply("abort", EmptyObject))
    /\ UNCHANGED <<policiesCache, env, text, policyResult, availableModels,
                   modelsToTry, healthCalls, decideVars, extVars>>

\* The fetch settles: it rejects, or the headers arrive and clearTimeout
\* runs before the body is awaited.
ChatHeaders ==
    /\ pc = "chat_wait"
    /\ \/ /\ \E kind \in {"network", "network_eof"} :
                ChatOutcome(Reply(kind, EmptyObject))
          /\ UNCHANGED <<policiesCache, env, text, policyResult, availableModels,
                         modelsToTry, healthCalls, decideVars, extVars>>
       \/ /\ pc' = "chat_body"
          /\ StepFrame

\* response.text() or response.json() settles.
ChatBody ==
    /\ pc = "chat_body"
    /\ \E reply \in {r \in Replies : r.kind # "abort"} : ChatOutcome(reply)
    /\ UNCHANGED <<policiesCache, env, text, policyResult, availableModels,
                   modelsToTry, healthCalls, decideVars, extVars>>

NextTimed ==
    \/ ParsePolicyStage
    \/ HealthSend \/ HealthTimeout \/ HealthHeaders \/ HealthBody
    \/ ChatSend \/ ChatTimeout \/ ChatHeaders \/ ChatBody

\* One policy set and configuration, a text no policy matches, a text
\* whose policy match lacks critical fields and a text a policy settles.
InitTimed ==
    /\ InitParse
    /\ policiesCache = << <<DiskPolicy, MemPolicy, ScalePolicy, CpuPolicy>> >>
    /\ env = [DISABLE_SCALING_INTENT_DETECTION |-> FALSE,
              DISABLE_ADD_MEMORY_DETECTION |-> FALSE]
    /\ text \in {TextQuestion, TextMemPartial, TextDisk}

\* The program's own steps and the timers it armed are taken when they can
\* be; nothing makes the backend answer.
SpecTimed ==
    /\ InitTimed
    /\ [][NextTimed]_vars
    /\ WF_vars(ParsePolicyStage)
    /\ WF_vars(HealthSend)
    /\ WF_vars(ChatSend)
    /\ WF_vars(HealthTimeout)
    /\ WF_vars(ChatTimeout)

----------------------------------------------------------------------------
(* Inputs of decide *)

DiskRecord(instance_name) ==
    [BaseRules("disk_utilization_low") EXCEPT
        !["instance_name"] = instance_name,
        !["project_id"] = Str("project-123"),
        !["threshold_percent"] = Num(8000)]

DecideRecords ==
    {DiskRecord(Str("-web-1")), DiskRecord(Str("web-1")), DiskRecord(Str("db-1")),
     DiskRecord(Null)}

RulePrefix ==
    Rule(Condition(TRUE, <<<<"instance_name", StartsWithCond(Str("-"))>>>>),
         Str("AUTO_REPLACE"))
\* Two field predicates in one condition.
RuleBoth ==
    Rule(Condition(TRUE, <<<<"alert_type", EqualsCond(Str("disk_utilization_low"))>>,
                           <<"instance_name", ContainsCond(Str("web"))>>>>),
         Str("NEEDS_APPROVAL"))
RuleRegex ==
    Rule(Condition(TRUE, <<<<"instance_name", MatchesCond(Str("^-"))>>>>),
         Str("NO_ACTION"))
\* A regex operand that does not compile, behind a predicate that may fail first.
RuleBadRegex ==
    Rule(Condition(TRUE, <<<<"project_id", IsNullCond>>,
                           <<"instance_name", MatchesCond(Str("("))>>>>),
         Str("AUTO_REPLACE"))
RuleNoInstance ==
    Rule(Condition(TRUE, <<<<"instance_name", IsNullCond>>>>), Str("NEEDS_APPROVAL"))
RuleUnknownShape ==
    Rule(Condition(TRUE, <<<<"instance_name", UnknownCond>>>>), Str("AUTO_REPLACE"))
\* A bare value as condition and a decision outside the three.
RuleEscalate ==
    Rule(Condition(TRUE, <<<<"threshold_percent", LiteralCond(Num(8000))>>,
                           <<"instance_name", StartsWithCond(Str("db"))>>>>),
         Str("ESCALATE"))
RuleNoCondition == Rule(Condition(FALSE, <<>>), Str("AUTO_REPLACE"))
\* An equals operand that is the string form of a number.
RuleThreshold ==
    Rule(Condition(TRUE, <<<<"threshold_percent", EqualsCond(Str("80"))>>>>),
         Str("PAGE_ONCALL"))

Rules == {RulePrefix, RuleBoth, RuleRegex, RuleBadRegex, RuleNoInstance,
          RuleUnknownShape, RuleEscalate, RuleNoCondition, RuleThreshold}

\* Longest decision_rules list.
MaxRules == 3

DefaultDecisions == {Undef, Str("NEEDS_APPROVAL"), Str("PAGE_ONCALL")}

DecisionPolicies ==
    {DecisionPolicy(TRUE, rules, d) :
        rules \in SeqsUpTo(Rules, MaxRules), d \in DefaultDecisions}
    \cup {DecisionPolicy(FALSE, <<>>, d) : d \in DefaultDecisions}

\* The orchestrator calls decide(parseResult.parsed, parseResult.policy).
Decide ==
    /\ dOut.status = "idle"
    /\ pc = "off"
    /\ dOut' = decide(dParsed, dPolicy)
    /\ UNCHANGED <<dParsed, dPolicy, parserVars, extVars>>

\* The same call against the earlier decide.
DecideLegacy ==
    /\ dOutLegacy.status = "idle"
    /\ pc = "off"
    /\ dOutLegacy' = decideLegacy(dParsed, dPolicy)
    /\ UNCHANGED <<decideVars, parserVars, legacyPolicyResult, legacyReport,
                   storeVars, reportVars, twiceVars, sideVars>>

InitDecide ==
    /\ LegacyIdle
    /\ TwiceIdle
    /\ SideIdle
    /\ ReportIdle
    /\ StoreIdle
    /\ policiesCache = <<>>
    /\ env = [DISABLE_SCALING_INTENT_DETECTION |-> FALSE,
              DISABLE_ADD_MEMORY_DETECTION |-> FALSE]
    /\ text = TextQuestion
    /\ pc = "off"
    /\ policyResult = NotMatched
    /\ availableModels = <<>>
    /\ modelsToTry = <<>>
    /\ modelIdx = 0
    /\ errors = <<>>
    /\ lastReply = NoReply
    /\ healthCalls = 0
    /\ chatCalls = <<>>
    /\ llmResult = NoLlmResult
    /\ result = Pending
    /\ dParsed \in DecideRecords
    /\ dPolicy \in {<<>>} \cup {<<p>> : p \in DecisionPolicies}
    /\ dOut = NoDecision

NextDecide == Decide \/ DecideLegacy

SpecDecide == InitDecide /\ [][NextDecide]_vars

----------------------------------------------------------------------------
(* The Policy Store and the policy-based parsers on their own *)

\* Policy lists a source file holds.
StoreLists ==
    { <<>>,
      <<CpuFullPolicy, DiskFullPolicy>>,
      <<VmFullPolicy, ScaleFullPolicy>>,
      <<CapacityPolicy, ScalePolicy, MemPolicy>>,
      <<SparsePolicy, DiskPolicy, MemPolicy, ScalePolicy>>,
      <<BrokenPolicy, DiskFullPolicy>> }

PolicyFiles ==
    {PolicyFile("absent", <<>>), PolicyFile("malformed", <<>>),
     PolicyFile("no_policies", <<>>)}
    \cup {PolicyFile("json", policies) : policies \in StoreLists}

\* Somebody edits, removes or breaks the source file.
WriteFile ==
    /\ pc = "store"
    /\ \E file \in PolicyFiles \ {policiesFile} : policiesFile' = file
    /\ UNCHANGED <<policiesCache, env, text, pc, policyResult, availableModels,
                   modelsToTry, modelIdx, errors, lastReply, healthCalls,
                   chatCalls, llmResult, result, decideVars, legacyVars, loadOut,
                   reportVars, twiceVars, sideVars>>

LoadPolicies ==
    /\ pc = "store"
    /\ LET l == loadPolicies(policiesCache, policiesFile)
       IN /\ policiesCache' = l.cache
          /\ loadOut' = LoadOut("loadPolicies", policiesCache, l)
    /\ UNCHANGED <<env, text, pc, policyResult, availableModels, modelsToTry,
                   modelIdx, errors, lastReply, healthCalls, chatCalls,
                   llmResult, result, decideVars, legacyVars, policiesFile,
                   reportVars, twiceVars, sideVars>>

ReloadPolicies ==
    /\ pc = "store"
    /\ LET l == reloadPolicies(policiesCache, policiesFile)
       IN /\ policiesCache' = l.cache
          /\ loadOut' = LoadOut("reloadPolicies", policiesCache, l)
    /\ UNCHANGED <<env, text, pc, policyResult, availableModels, modelsToTry,
                   modelIdx, errors, lastReply, healthCalls, chatCalls,
                   llmResult, result, decideVars, legacyVars, policiesFile,
                   reportVars, twiceVars, sideVars>>

\* tryPolicyParsing(text) of part_002, loadPolicies() included.
TryPolicyParsing ==
    /\ pc = "store"
    /\ LET l == loadPolicies(policiesCache, policiesFile)
       IN /\ policiesCache' = l.cache
          /\ loadOut' = LoadOut("tryPolicyParsing", policiesCache, l)
          /\ policyResult' = IF l.threw THEN Threw
                             ELSE tryPolicyParsing(l.value[1], text)
    /\ UNCHANGED <<env, text, pc, availableModels, modelsToTry, modelIdx,
                   errors, lastReply, healthCalls, chatCalls, llmResult,
                   result, decideVars, legacyVars, policiesFile, reportVars,
                   twiceVars, sideVars>>

\* tryPolicyParsing(text) of the earlier parserEngine.js; its loadPolicies
\* is the same text, run here against the same slot and source.
TryPolicyParsingLegacy ==
    /\ pc = "store"
    /\ LET l == loadPolicies(policiesCache, policiesFile)
       IN /\ policiesCache' = l.cache
          /\ loadOut' = LoadOut("tryPolicyParsing", policiesCache, l)
          /\ legacyPolicyResult' = IF l.threw THEN Threw
                                   ELSE tryPolicyParsingLegacy(l.value[1], text)
    /\ UNCHANGED <<env, text, pc, policyResult, availableModels, modelsToTry,
                   modelIdx, errors, lastReply, healthCalls, chatCalls,
                   llmResult, result, decideVars, dOutLegacy, legacyReport,
                   policiesFile, reportVars, twiceVars, sideVars>>

InitPolicy ==
    /\ policiesCache = <<>>
    /\ policiesFile \in PolicyFiles
    /\ loadOut = NoLoad
    /\ LegacyIdle
    /\ TwiceIdle
    /\ SideIdle
    /\ ReportIdle
    /\ env = [DISABLE_SCALING_INTENT_DETECTION |-> FALSE,
              DISABLE_ADD_MEMORY_DETECTION |-> FALSE]
    /\ text \in Texts \cup {TextDiskProgram}
    /\ pc = "store"
    /\ policyResult = NotMatched
    /\ availableModels = <<>>
    /\ modelsToTry = <<>>
    /\ modelIdx = 0
    /\ errors = <<>>
    /\ lastReply = NoReply
    /\ healthCalls = 0
    /\ chatCalls = <<>>
    /\ llmResult = NoLlmResult
    /\ result = Pending
    /\ dParsed = EmptyObject
    /\ dPolicy = <<>>
    /\ dOut = NoDecision

NextPolicy ==
    WriteFile \/ LoadPolicies \/ ReloadPolicies \/ TryPolicyParsing
    \/ TryPolicyParsingLegacy

SpecPolicy == InitPolicy /\ [][NextPolicy]_vars

----------------------------------------------------------------------------
(* The formatter and the approval message on their own *)

\* Parsed records handed to formatReport.
MachineRecord ==
    [BaseRules("add_memory_to_vm") EXCEPT
        !["service_name"] = Str("mm-drb"),
        !["current_machine_type"] = Str("c2d-standard-2"),
        !["target_machine_type"] = Str("c2d-standard-4")]
\* A model reply may carry serviceName with any type (passthrough).
OddMachineRecord ==
    [BaseRules("add_memory_to_vm") EXCEPT !["serviceName"] = Num(4200)]
ScheduleRecord ==
    [BaseRules("scaling_intent_detected") EXCEPT
        !["schedule"] = Str("30 17 4 02 * 2026"),
        !["duration_sec"] = Str("7200"),
        !["schedule_name"] = Str("big sale")]

\* The keys Object.entries lists that a template of the model mentions, in
\* the order of the object.
KeysInstanceFirst == <<"instance_name", "project_id", "threshold_percent", "value_percent">>
KeysProjectFirst == <<"project_id", "instance_name", "threshold_percent", "value_percent">>

ReportRecords ==
    {[parsed |-> r, keys |-> KeysInstanceFirst] :
        r \in {DiskRecord(Str("web-1")), DiskRecord(Null), DiskRecord(Str("pid-$$")),
               DiskRecord(Str("$&")), DiskRecord(Str("{project_id}")),
               MachineRecord, OddMachineRecord, ScheduleRecord}}
    \cup {[parsed |-> DiskRecord(Str("{project_id}")), keys |-> KeysProjectFirst]}

DeleteTemplate ==
    PlainTemplate(<<Lit("gcloud compute instances delete "), Ph("instance_name"),
                    Lit(" --project "), Ph("project_id"), Lit(" # "),
                    Ph("instance_name"), Ph("value_percent")>>)

ActionTemplates ==
    {ActionTemplate(Str("Delete instance"), Str("recreate"), DeleteTemplate, <<>>),
     ActionTemplate(Str("GCP command"), Undef, McpTemplate("execute_gcloud_scale_up"),
                    <<Lit("gcloud compute instance-groups managed resize")>>),
     ActionTemplate(Str("GCP command"), Undef, McpTemplate("execute_gcloud_scale_up"), <<>>),
     ActionTemplate(Str("GCP command"), Undef, NoTemplate,
                    <<Lit("gcloud compute instance-groups managed resize")>>),
     ActionTemplate(Str("Autoscaler"), Undef,
                    McpTemplate("generate_terragrunt_autoscaler_diff"), <<>>),
     ActionTemplate(Undef, Undef, McpTemplate("generate_machine_type_diff"), <<>>),
     ActionTemplate(Str("Schedule"), Undef,
                    McpTemplate("generate_scaling_schedule_yaml_diff"), <<>>),
     ActionTemplate(Str("Schedule PR"), Undef,
                    McpTemplate("create_scaling_schedule_pr"), <<>>),
     ActionTemplate(Str("Restart"), Undef, McpTemplate("restart_service"), <<>>)}

\* Longest action_templates list.
MaxTemplates == 2

SummaryTemplates ==
    {<<>>,
     <<Lit("Alert on "), Ph("instance_name"), Lit(": "), Ph("action_options")>>}

ReportPolicies ==
    {ReportPolicy("disk_utilization_low", TRUE, list, NoTemplate, st) :
        list \in SeqsUpTo(ActionTemplates, MaxTemplates), st \in SummaryTemplates}
    \cup {ReportPolicy("scaling_intent_detected", TRUE,
                       <<ActionTemplate(Str("Create Git PR"), Undef,
                                        McpTemplate("generate_terragrunt_autoscaler_diff"), <<>>)>>,
                       NoTemplate, <<>>)}
    \cup {ReportPolicy("disk_utilization_low", FALSE, <<>>, t,
                       <<Lit("Alert: "), Ph("action")>>) :
            t \in {DeleteTemplate, McpTemplate("generate_machine_type_diff"), NoTemplate}}

\* formatReport of src/src/report/formatReport.js.
FormatReport ==
    /\ pc = "report"
    /\ report.status = "idle"
    /\ legacyReport.status = "idle"
    /\ \E outs \in [1..MaxTemplates -> ToolOutcomes] :
          report' = formatReport(reportArgs, enableMcp, outs)
    /\ UNCHANGED <<parserVars, decideVars, legacyVars, storeVars, twiceVars, sideVars, reportArgs,
                   enableMcp, blocks>>

\* formatReport of part_003, for the same call.
FormatReportLegacy ==
    /\ pc = "report"
    /\ report.status = "idle"
    /\ legacyReport.status = "idle"
    /\ \E outs \in [1..MaxTemplates -> ToolOutcomes] :
          legacyReport' = formatReportLegacy(reportArgs, enableMcp, outs)
    /\ UNCHANGED <<parserVars, decideVars, dOutLegacy, legacyPolicyResult,
                   storeVars, reportVars, twiceVars, sideVars>>

\* The app_mention handler builds the message from the report and posts it.
PostMessage ==
    /\ pc = "report"
    /\ report.status = "returned"
    /\ ~blocks.posted
    /\ \E disableApprovalButtons \in BOOLEAN :
          blocks' = Posted(ApproveButtons(reportArgs.decision, report,
                                          disableApprovalButtons))
    /\ UNCHANGED <<parserVars, decideVars, legacyVars, storeVars, twiceVars, sideVars, reportArgs,
                   enableMcp, report>>

InitReport ==
    /\ \E rec \in ReportRecords, decision \in {Str("AUTO_REPLACE"), Str("NEEDS_APPROVAL")},
          policy \in {<<>>} \cup {<<p>> : p \in ReportPolicies} :
            reportArgs = [parsed |-> rec.parsed, keys |-> rec.keys,
                          decision |-> decision, policy |-> policy]
    /\ enableMcp \in BOOLEAN
    /\ report = NoReport
    /\ blocks = NotPosted
    /\ LegacyIdle
    /\ TwiceIdle
    /\ SideIdle
    /\ StoreIdle
    /\ policiesCache = <<>>
    /\ env = [DISABLE_SCALING_INTENT_DETECTION |-> FALSE,
              DISABLE_ADD_MEMORY_DETECTION |-> FALSE]
    /\ text = TextQuestion
    /\ pc = "report"
    /\ policyResult = NotMatched
    /\ availableModels = <<>>
    /\ modelsToTry = <<>>
    /\ modelIdx = 0
    /\ errors = <<>>
    /\ lastReply = NoReply
    /\ healthCalls = 0
    /\ chatCalls = <<>>
    /\ llmResult = NoLlmResult
    /\ result = Pending
    /\ dParsed = EmptyObject
    /\ dPolicy = <<>>
    /\ dOut = NoDecision

NextReport == FormatReport \/ FormatReportLegacy \/ PostMessage

SpecReport == InitReport /\ [][NextReport]_vars

----------------------------------------------------------------------------
(* processIncomingMessage, twice against the same canned backend *)

\* A canned backend: what GET /api/tags does, the catalogue it lists, and
\* the reply each model gives to POST /api/chat.
Canned(health, models, replies) ==
    [health |-> health, models |-> models, replies |-> replies]

ChatModels == {model \in ModelNames : ~IsEmbedding(model)}

CannedReplies ==
    {Reply("abort", EmptyObject), Reply("json", JsonUnknownType),
     Reply("json", JsonMemFull), Reply("json", JsonNullType)}

CannedCatalogues ==
    {<<>>, <<primaryModel>>, <<"mistral:latest", primaryModel>>,
     <<"mistral:latest", "nomic-embed-text:latest">>,
     <<"qwen2:7b", "mistral:latest">>}

CannedBackends ==
    {Canned(health, <<>>, [model \in ChatModels |-> Reply("abort", EmptyObject)]) :
        health \in HealthOutcomes \ {"ok"}}
    \cup {Canned("ok", models, replies) :
            models \in CannedCatalogues, replies \in [ChatModels -> CannedReplies]}

\* The policies of the parser carry neither decision rules nor templates.
AsDecisionPolicy(policy) ==
    IF policy = <<>> THEN <<>> ELSE <<DecisionPolicy(FALSE, <<>>, Undef)>>
AsReportPolicy(policy) ==
    IF policy = <<>> THEN <<>>
    ELSE <<ReportPolicy(policy[1].alert_type, FALSE, <<>>, NoTemplate, <<>>)>>

\* tryLLMParsing's health check against the canned backend.
HealthCanned ==
    /\ pc = "health"
    /\ healthCalls' = healthCalls + 1
    /\ HealthOutcome(canned.health, canned.models)
    /\ UNCHANGED <<policiesCache, env, text, policyResult, errors, lastReply,
                   chatCalls, decideVars, extVars>>

\* One turn of the loop over modelsToTry against the canned backend.
ChatCanned ==
    /\ pc = "chat"
    /\ ChatOutcome(canned.replies[modelsToTry[modelIdx]])
    /\ UNCHANGED <<policiesCache, env, text, policyResult, availableModels,
                   modelsToTry, healthCalls, decideVars, extVars>>

\* processIncomingMessage after parseAlert: decide and formatReport for a
\* matched result, nothing for any other.
Orchestrate ==
    /\ pc = "done"
    /\ pc' = "reported"
    /\ IF result.status = "returned" /\ result.matched
       THEN LET decision == decide(result.parsed, AsDecisionPolicy(result.policy))
                args == [parsed |-> result.parsed, keys |-> KeysInstanceFirst,
                         decision |-> decision.decision,
                         policy |-> AsReportPolicy(result.policy)]
            IN /\ dParsed' = result.parsed
               /\ dPolicy' = AsDecisionPolicy(result.policy)
               /\ dOut' = decision
               /\ reportArgs' = args
               /\ report' = IF decision.status = "returned"
                            THEN formatReport(args, enableMcp,
                                              [i \in 1..MaxTemplates |-> "diff"])
                            ELSE report
       ELSE UNCHANGED <<decideVars, reportArgs, report>>
    /\ UNCHANGED <<policiesCache, env, text, policyResult, availableModels,
                   modelsToTry, modelIdx, errors, lastReply, healthCalls,
                   chatCalls, llmResult, result, legacyVars, storeVars,
                   enableMcp, blocks, twiceVars, sideVars>>

\* The same text arrives again: the locals of the request start afresh, the
\* cache, the configuration and the backend stay as they are.
SecondRequest ==
    /\ pc = "reported"
    /\ firstResult = Pending
    /\ firstResult' = result
    /\ pc' = "start"
    /\ policyResult' = NotMatched
    /\ availableModels' = <<>>
    /\ modelsToTry' = <<>>
    /\ modelIdx' = 0
    /\ errors' = <<>>
    /\ lastReply' = NoReply
    /\ healthCalls' = 0
    /\ chatCalls' = <<>>
    /\ llmResult' = NoLlmResult
    /\ result' = Pending
    /\ dParsed' = EmptyObject
    /\ dPolicy' = <<>>
    /\ dOut' = NoDecision
    /\ reportArgs' = [parsed |-> EmptyObject, keys |-> <<>>, decision |-> Undef,
                      policy |-> <<>>]
    /\ report' = NoReport
    /\ UNCHANGED <<policiesCache, env, text, legacyVars, storeVars, enableMcp,
                   blocks, canned, promptPolicies, lookupPolicies, sideVars>>

InitRequest ==
    /\ LegacyIdle
    /\ ReportIdle
    /\ StoreIdle
    /\ SideIdle
    /\ canned \in CannedBackends
    /\ firstResult = Pending
    /\ promptPolicies = <<>> /\ lookupPolicies = <<>>
    /\ policiesCache = << <<DiskPolicy, MemPolicy, ScalePolicy, CpuPolicy>> >>
    /\ env \in {[DISABLE_SCALING_INTENT_DETECTION |-> FALSE,
                  DISABLE_ADD_MEMORY_DETECTION |-> d] : d \in BOOLEAN}
    /\ text \in {TextQuestion, TextMemPartial, TextDisk}
    /\ pc = "start"
    /\ policyResult = NotMatched
    /\ availableModels = <<>>
    /\ modelsToTry = <<>>
    /\ modelIdx = 0
    /\ errors = <<>>
    /\ lastReply = NoReply
    /\ healthCalls = 0
    /\ chatCalls = <<>>
    /\ llmResult = NoLlmResult
    /\ result = Pending
    /\ dParsed = EmptyObject
    /\ dPolicy = <<>>
    /\ dOut = NoDecision

NextRequest ==
    ParsePolicyStage \/ HealthCanned \/ ChatCanned \/ Orchestrate \/ SecondRequest

SpecRequest == InitRequest /\ [][NextRequest]_vars

----------------------------------------------------------------------------
(* parseAlert while reloadPolicies runs *)

\* The list in the slot when the request starts.
SnapshotList == <<DiskPolicy, MemPolicy, ScalePolicy, CpuPolicy>>

\* What the source file is edited to before a reload.
ReloadFiles ==
    {PolicyFile("malformed", <<>>),
     PolicyFile("json", SnapshotList),
     PolicyFile("json", <<CpuFullPolicy, DiskFullPolicy>>),
     PolicyFile("json", <<CapacityPolicy, ScalePolicy, MemPolicy>>)}

SnapshotCatalogues == {<<>>, <<primaryModel>>, <<"mistral:latest", primaryModel>>}

SnapshotReplies ==
    {Reply("abort", EmptyObject), Reply("json", JsonMemFull),
     Reply("json", JsonLoud), Reply("json", JsonNullType)}

\* tryLLMParsing from the health check to the prompt: loadPolicies() at the
\* start of the prompt runs after the awaits of the health check, outside
\* any try, so its failure leaves parseAlert.
HealthLoad ==
    /\ pc = "health"
    /\ healthCalls' = healthCalls + 1
    /\ \E outcome \in HealthOutcomes, models \in SnapshotCatalogues :
          /\ outcome # "ok" => models = <<>>
          /\ LET l == loadPolicies(policiesCache, policiesFile)
                 prompted == outcome = "ok" /\ models # <<>>
             IN IF prompted /\ l.threw
                THEN /\ availableModels' = models
                     /\ result' = Thrown
                     /\ pc' = "done"
                     /\ UNCHANGED <<policiesCache, promptPolicies, modelsToTry,
                                    modelIdx, llmResult>>
                ELSE /\ HealthOutcome(outcome, models)
                     /\ IF prompted
                        THEN policiesCache' = l.cache /\ promptPolicies' = l.value
                        ELSE UNCHANGED <<policiesCache, promptPolicies>>
    /\ UNCHANGED <<env, text, policyResult, errors, lastReply, chatCalls,
                   decideVars, legacyVars, storeVars, reportVars, canned,
                   firstResult, lookupPolicies, sideVars>>

\* One turn of the loop over modelsToTry: loadPolicies() for the lookup runs
\* after the awaits of the chat call, inside the try of the loop, so its
\* failure counts as a failure of the model.
ChatLoad ==
    /\ pc = "chat"
    /\ \E reply \in SnapshotReplies :
          LET model == modelsToTry[modelIdx]
              r == tryLLMWithModel(model, reply)
              l == loadPolicies(policiesCache, policiesFile)
          IN IF r.outcome # "matched"
             THEN /\ ChatOutcome(reply)
                  /\ UNCHANGED <<policiesCache, lookupPolicies>>
             ELSE /\ lastReply' = reply
                  /\ chatCalls' = Append(chatCalls, model)
                  /\ IF l.threw
                     THEN /\ errors' = Append(errors, [model |-> model, how |-> "caught"])
                          /\ UNCHANGED <<policiesCache, lookupPolicies>>
                          /\ IF modelIdx < Len(modelsToTry)
                             THEN /\ modelIdx' = modelIdx + 1
                                  /\ pc' = "chat"
                                  /\ UNCHANGED <<llmResult, result>>
                             ELSE /\ Finish(NotMatchedLlm("All models failed"))
                                  /\ UNCHANGED modelIdx
                     ELSE /\ policiesCache' = l.cache
                          /\ lookupPolicies' = l.value
                          /\ Finish(LlmResult(TRUE, r.parsed,
                                              FindPolicy(l.value[1], r.parsed["alert_type"]),
                                              model, ""))
                          /\ UNCHANGED <<errors, modelIdx>>
    /\ UNCHANGED <<env, text, policyResult, availableModels, modelsToTry,
                   healthCalls, decideVars, legacyVars, storeVars, reportVars,
                   canned, firstResult, promptPolicies, sideVars>>

\* While the request awaits the backend, the source file is edited and
\* reloadPolicies() runs; it leaves the slot null when the load fails.
ReloadDuringAwait ==
    /\ pc \in {"health", "chat"}
    /\ \E file \in ReloadFiles :
          /\ policiesFile' = file
          /\ policiesCache' = reloadPolicies(policiesCache, file).cache
    /\ UNCHANGED <<env, text, pc, policyResult, availableModels, modelsToTry,
                   modelIdx, errors, lastReply, healthCalls, chatCalls,
                   llmResult, result, decideVars, legacyVars, loadOut,
                   reportVars, twiceVars, sideVars>>

InitSnapshot ==
    /\ LegacyIdle
    /\ TwiceIdle
    /\ SideIdle
    /\ ReportIdle
    /\ policiesFile = PolicyFile("json", SnapshotList)
    /\ loadOut = NoLoad
    /\ policiesCache = <<SnapshotList>>
    /\ env = [DISABLE_SCALING_INTENT_DETECTION |-> FALSE,
              DISABLE_ADD_MEMORY_DETECTION |-> FALSE]
    /\ text \in {TextQuestion, TextMemPartial, TextDisk}
    /\ pc = "start"
    /\ policyResult = NotMatched
    /\ availableModels = <<>>
    /\ modelsToTry = <<>>
    /\ modelIdx = 0
    /\ errors = <<>>
    /\ lastReply = NoReply
    /\ healthCalls = 0
    /\ chatCalls = <<>>
    /\ llmResult = NoLlmResult
    /\ result = Pending
    /\ dParsed = EmptyObject
    /\ dPolicy = <<>>
    /\ dOut = NoDecision

NextSnapshot == ParsePolicyStage \/ HealthLoad \/ ChatLoad \/ ReloadDuringAwait

SpecSnapshot == InitSnapshot /\ [][NextSnapshot]_vars

----------------------------------------------------------------------------
(* The approve and reject handlers and getMCPClient *)

SideFrame == UNCHANGED <<parserVars, decideVars, legacyVars, storeVars, reportVars,
                         twiceVars>>

\* A user clicks "Approve & Execute" on the message while it shows its
\* buttons; the handler acknowledges and parses the value.
ClickApprove ==
    /\ approval.buttons
    /\ \E i \in 1..MaxApprovals :
          /\ approval.approve[i] = "idle"
          /\ approval' = [approval EXCEPT !.approve[i] = "started"]
    /\ UNCHANGED mcp
    /\ SideFrame

\* The handler imports mcpClient.js and calls executeMCPGcloudCommand, which
\* calls getMCPClient.
StartExecution ==
    /\ \E i \in 1..MaxApprovals :
          /\ approval.approve[i] = "started"
          /\ mcp.caller[i].pc = "idle"
          /\ approval' = [approval EXCEPT !.approve[i] = "executing"]
          /\ mcp' = [mcp EXCEPT !.caller[i].pc = "sdk"]
    /\ SideFrame

\* formatReport of a concurrent request calls generateMachineTypeDiff,
\* which calls getMCPClient.
DiffRequest ==
    /\ mcp.caller[DiffCaller].pc = "idle"
    /\ mcp' = [mcp EXCEPT !.caller[DiffCaller].pc = "sdk"]
    /\ UNCHANGED approval
    /\ SideFrame

\* getMCPClient after await loadMCPSDK(): it throws without the SDK,
\* returns mcpClient when it is set, and otherwise sets mcpClient to a new
\* client and starts connect, which spawns the server.
AfterLoadSDK ==
    /\ \E c \in Callers :
          /\ mcp.caller[c].pc = "sdk"
          /\ mcp' = IF ~mcp.sdk
                    THEN [mcp EXCEPT !.caller[c].pc = "threw"]
                    ELSE IF mcp.client # "none"
                    THEN [mcp EXCEPT !.caller[c] = [pc |-> "got", got |-> mcp.client]]
                    ELSE [mcp EXCEPT !.client = "connecting",
                                     !.spawns = @ + 1,
                                     !.caller[c].pc = "connecting"]
    /\ UNCHANGED approval
    /\ SideFrame

\* await mcpClient.connect(transport) settles: the caller gets the client,
\* or connect rejects and getMCPClient throws, mcpClient staying set.
ConnectSettles ==
    /\ \E c \in Callers, ok \in BOOLEAN :
          /\ mcp.caller[c].pc = "connecting"
          /\ mcp' = IF ok
                    THEN [mcp EXCEPT !.client = "connected",
                                     !.caller[c] = [pc |-> "got", got |-> "connected"]]
                    ELSE [mcp EXCEPT !.client = "failed",
                                     !.caller[c].pc = "threw"]
    /\ UNCHANGED approval
    /\ SideFrame

\* client.callTool(...): on a client whose connect had completed the tool
\* runs; on a client whose connect had failed the call fails; on a client
\* handed while it was connecting either may happen.
CallTool ==
    /\ \E c \in Callers, runs \in BOOLEAN :
          /\ mcp.caller[c].pc = "got"
          /\ mcp.caller[c].got = "connected" => runs
          /\ mcp.caller[c].got = "failed" => ~runs
          /\ mcp' = [mcp EXCEPT !.caller[c].pc = "called"]
          /\ approval' = IF runs /\ c # DiffCaller
                         THEN [approval EXCEPT !.executions = @ + 1,
                                               !.afterReject = @ \/ approval.rejected]
                         ELSE approval
    /\ SideFrame

\* The approve handler ends: chat.update replaces the blocks of the
\* message, buttons included, with the result.
ApproveUpdate ==
    /\ \E i \in 1..MaxApprovals :
          /\ approval.approve[i] = "executing"
          /\ mcp.caller[i].pc \in {"threw", "called"}
          /\ approval' = [approval EXCEPT !.approve[i] = "done", !.buttons = FALSE]
    /\ UNCHANGED mcp
    /\ SideFrame

\* A user clicks "Reject" on the message while it shows its buttons.
ClickReject ==
    /\ approval.buttons
    /\ approval.reject = "idle"
    /\ approval' = [approval EXCEPT !.reject = "started"]
    /\ UNCHANGED mcp
    /\ SideFrame

\* The reject handler: chat.update replaces the blocks with "Action
\* Rejected ... will not be executed".
RejectUpdate ==
    /\ approval.reject = "started"
    /\ approval' = [approval EXCEPT !.reject = "done", !.rejected = TRUE,
                                    !.buttons = FALSE]
    /\ UNCHANGED mcp
    /\ SideFrame

InitApproval ==
    /\ mcp \in {NoMcp(sdk) : sdk \in BOOLEAN}
    /\ approval = NoApproval
    /\ LegacyIdle
    /\ TwiceIdle
    /\ ReportIdle
    /\ StoreIdle
    /\ policiesCache = <<>>
    /\ env = [DISABLE_SCALING_INTENT_DETECTION |-> FALSE,
              DISABLE_ADD_MEMORY_DETECTION |-> FALSE]
    /\ text = TextQuestion
    /\ pc = "off"
    /\ policyResult = NotMatched
    /\ availableModels = <<>>
    /\ modelsToTry = <<>>
    /\ modelIdx = 0
    /\ errors = <<>>
    /\ lastReply = NoReply
    /\ healthCalls = 0
    /\ chatCalls = <<>>
    /\ llmResult = NoLlmResult
    /\ result = Pending
    /\ dParsed = EmptyObject
    /\ dPolicy = <<>>
    /\ dOut = NoDecision

NextApproval ==
    \/ ClickApprove \/ StartExecution \/ DiffRequest \/ AfterLoadSDK
    \/ ConnectSettles \/ CallTool \/ ApproveUpdate \/ ClickReject \/ RejectUpdate

SpecApproval == InitApproval /\ [][NextApproval]_vars

----------------------------------------------------------------------------
(* Properties of parseAlert *)

Returned == pc = "done" /\ result.status = "returned"
MatchedResult == Returned /\ result.matched

\* The paths of parseAlert a matched result comes from.
PolicyPath == MatchedResult /\ ~llmResult.called
MergedPath == MatchedResult /\ llmResult.called /\ policyResult.matched
ModelPath == MatchedResult /\ llmResult.called /\ ~policyResult.matched

\* C1: parseAlert never returns a matched result whose parsed.alert_type is
\* an alert type the configuration denylists, on any path.
C1_DenylistedNeverReturned ==
    MatchedResult =>
        ~(/\ result.parsed["alert_type"].t = "string"
          /\ result.parsed["alert_type"].s \in Denylist(env))

\* A critical field counts as present when its snake_case or camelCase key
\* holds a non-empty string.
C2_Present(parsed, snake, camel) ==
    \/ parsed[snake].t = "string" /\ parsed[snake].s # ""
    \/ parsed[camel].t = "string" /\ parsed[camel].s # ""
C2_AllCriticalPresent(parsed) ==
    /\ C2_Present(parsed, "service_name", "serviceName")
    /\ C2_Present(parsed, "current_machine_type", "currentMachineType")
    /\ C2_Present(parsed, "target_machine_type", "targetMachineType")

\* C2: when the policy-based parser matches a policy that is not denylisted
\* and the alert type is not add_memory_to_vm, or is add_memory_to_vm with
\* every critical field present, parseAlert returns that policy result
\* (parsed record and originating policy) and has called the backend neither
\* for a health check nor for a chat.
C2_PolicyResultReturnedDirectly ==
    LET pr == tryPolicyParsing(policiesCache[1], text)
    IN (/\ pc # "start"
        /\ pr.matched
        /\ pr.policy[1].alert_type \notin Denylist(env)
        /\ \/ pr.parsed["alert_type"] # Str("add_memory_to_vm")
           \/ C2_AllCriticalPresent(pr.parsed))
       => /\ pc = "done"
          /\ result = Result("returned", TRUE, pr.parsed, pr.policy, "", "")
          /\ healthCalls = 0
          /\ chatCalls = <<>>
          /\ ~llmResult.called

\* A field-critical match with every critical field present came back on the
\* policy path.
C2_Witness ==
    /\ PolicyPath
    /\ result.parsed["alert_type"] = Str("add_memory_to_vm")
    /\ C2_AllCriticalPresent(result.parsed)
    /\ healthCalls = 0

\* The policy-based parser matched add_memory_to_vm, not denylisted, with a
\* critical field missing.
C3_FieldCriticalIncomplete ==
    LET pr == tryPolicyParsing(policiesCache[1], text)
    IN /\ pr.matched
       /\ pr.policy[1].alert_type \notin Denylist(env)
       /\ pr.parsed["alert_type"] = Str("add_memory_to_vm")
       /\ ~C2_AllCriticalPresent(pr.parsed)

\* C3: after a field-critical policy match with a critical field missing,
\* parseAlert ends only once the model-backed parser has run; when the model
\* matched, a returned record is the policy's extraction defaults overlaid by
\* every field of the model's record, with parse_method "llm", it passes the
\* schema, and the policy attached is the one the policy-based parser
\* identified; and the merge is what parseAlert returns whenever the model's
\* type is not denylisted and the merged record passes the schema.
C3_FallThroughMerges ==
    LET pr == tryPolicyParsing(policiesCache[1], text)
        defaults == pr.policy[1].extraction_rules
        overlay == [f \in Fields |->
                      IF f = "parse_method" THEN Str("llm")
                      ELSE IF llmResult.parsed[f] # Undef THEN llmResult.parsed[f]
                      ELSE defaults[f]]
    IN (C3_FieldCriticalIncomplete /\ pc = "done")
       => /\ llmResult.called
          /\ healthCalls = 1
          /\ (llmResult.matched /\ result.status = "returned" /\ result.matched)
                => /\ result.parsed = overlay
                   /\ SchemaAccepts(result.parsed)
                   /\ result.policy = pr.policy
                   /\ result.modelUsed = llmResult.modelUsed
          /\ (/\ llmResult.matched
              /\ llmResult.parsed["alert_type"].s \notin Denylist(env)
              /\ SchemaAccepts(overlay))
                => result.status = "returned" /\ result.matched

\* The model supplied the three critical fields after the policy had found
\* only one of them.
C3_Witness ==
    /\ C3_FieldCriticalIncomplete
    /\ MergedPath
    /\ C2_AllCriticalPresent(result.parsed)
    /\ result.parsed["environment"] = Str("qaprod")
    /\ result.parsed["parse_method"] = Str("llm")

----------------------------------------------------------------------------
(* Properties of the model cascade *)

\* The latest chat call was answered with JSON whose alert_type is null.
NullTypeReply == lastReply.kind = "json" /\ lastReply.body["alert_type"] = Null

\* The calls made so far went to the first candidates, one each, in order.
CallsFollowOrder ==
    /\ Len(chatCalls) <= Len(modelsToTry)
    /\ \A k \in 1..Len(chatCalls) : chatCalls[k] = modelsToTry[k]

\* C4: once a candidate's reply parses to JSON whose alert_type is null, the
\* request is over: the model-backed parser and parseAlert have returned not
\* matched, the candidates after that one received no chat call, and none
\* can receive one any more.
C4_NullTypeEndsCascade ==
    NullTypeReply =>
        /\ pc = "done"
        /\ llmResult.called /\ ~llmResult.matched
        /\ result.status = "returned" /\ ~result.matched
        /\ Len(chatCalls) = modelIdx
        /\ CallsFollowOrder
        /\ ~ENABLED ChatCall

\* A null alert_type came from the first candidate while another one was
\* still to be tried.
C4_Witness ==
    /\ NullTypeReply
    /\ pc = "done"
    /\ modelIdx = 1
    /\ Len(modelsToTry) >= 2

\* The failures C5 is about: timeout, transport failure, non-2xx status and
\* the overload class (EOF) in either form.
TransientKinds == {"abort", "network", "network_eof", "status", "status_eof"}

\* errors holds one entry per candidate tried, in the order of the trials.
OneEntryPerTrial ==
    /\ Len(errors) = Len(chatCalls)
    /\ \A k \in 1..Len(errors) : errors[k].model = chatCalls[k]

\* C5: after a chat call that timed out, failed in transport or returned a
\* non-2xx or EOF failure, the next candidate is up for its call while one
\* remains; the model-backed parser has returned (not matched, never thrown)
\* only if that candidate was the last one, and then every candidate has been
\* tried and errors holds one entry per candidate in trial order.
C5_TransientFailureTriesNext ==
    (lastReply.kind \in TransientKinds) =>
        /\ CallsFollowOrder
        /\ OneEntryPerTrial
        /\ result.status # "threw"
        /\ IF Len(chatCalls) < Len(modelsToTry)
           THEN /\ pc = "chat"
                /\ modelIdx = Len(chatCalls) + 1
                /\ ~llmResult.called
                /\ result.status = "pending"
           ELSE /\ pc = "done"
                /\ llmResult = NotMatchedLlm("All models failed")
                /\ chatCalls = modelsToTry
                /\ result.status = "returned" /\ ~result.matched

\* Three candidates failed one after the other, in different ways, and the
\* cascade ended with three entries.
C5_Witness ==
    /\ pc = "done"
    /\ Len(modelsToTry) = 3
    /\ Len(errors) = 3
    /\ lastReply.kind = "abort"
    /\ errors[1].how = "caught"
    /\ errors[2].how = "shouldRetry"
    /\ llmResult.error = "All models failed"

\* The latest chat call was answered with JSON that names an alert type and
\* fails the schema.
SchemaInvalidReply ==
    /\ lastReply.kind = "json"
    /\ lastReply.body["alert_type"].t \notin {"null", "undefined"}
    /\ \E f \in Fields : ~FieldValid(f, lastReply.body[f])

\* C6: a reply that parses as JSON, names an alert type and fails the schema
\* makes the request neither throw nor return while a candidate remains: the
\* next candidate is up for its call, and the failure is one entry of errors.
C6_InvalidReplyIsRetried ==
    SchemaInvalidReply =>
        /\ result.status # "threw"
        /\ OneEntryPerTrial
        /\ errors[Len(errors)].how = "shouldRetry"
        /\ (Len(chatCalls) < Len(modelsToTry))
              => /\ pc = "chat"
                 /\ modelIdx = Len(chatCalls) + 1
                 /\ ~llmResult.called
                 /\ result.status = "pending"

\* The first candidate's record failed the schema and the second is next.
C6_Witness ==
    /\ SchemaInvalidReply
    /\ pc = "chat"
    /\ modelIdx = 2
    /\ Len(errors) = 1

\* The required keys of a ParsedAlert with their declared types, and the
\* declared types of the optional keys that are present.
C7_WellTyped(o) ==
    /\ o["alert_type"].t = "string"
    /\ o["parse_method"].t = "string"
    /\ o["confidence"].t = "number"
    /\ o["metric_labels"].t = "object" /\ o["metric_labels"].s # "mixed"
    /\ o["missing_fields"].t = "array" /\ o["missing_fields"].s # "mixed"
    /\ \A f \in {"project_id", "instance_name", "policy_name", "condition_name",
                 "violation_started_raw", "gcp_alert_url"} :
          o[f].t \in {"string", "null"}
    /\ \A f \in {"threshold_percent", "value_percent"} :
          o[f].t \in {"number", "null", "undefined"}
    /\ \A f \in {"user_intent", "service_name", "schedule_name",
                 "schedule_expression", "duration_sec", "min_replicas",
                 "environment", "current_machine_type", "target_machine_type"} :
          o[f].t \in {"string", "null", "undefined"}

\* C7: every matched result of parseAlert, on the policy path, the model
\* path and the merged path, carries a parsed record that passes the
\* ParsedAlert schema.
C7_MatchedRecordValidates ==
    MatchedResult => C7_WellTyped(result.parsed)

\* A merged record came back while the same policy set holds a policy whose
\* record fails the schema on the policy path.
C7_Witness ==
    /\ MergedPath
    /\ C7_WellTyped(result.parsed)
    /\ \E i \in 1..Len(policiesCache[1]) :
          ~C7_WellTyped(MergeExtraction(policiesCache[1][i].extraction_rules, EmptyObject))

\* C8: every parsed record parseAlert returns has parse_method "policy" or
\* "llm" and a confidence between 0 and 1 (0..100 hundredths).
C8_MethodAndConfidenceInRange ==
    MatchedResult =>
        /\ result.parsed["parse_method"] \in {Str("policy"), Str("llm")}
        /\ result.parsed["confidence"].t = "number"
        /\ result.parsed["confidence"].n \in 0..100

----------------------------------------------------------------------------
(* Properties of decide *)

Decisions == {Str("AUTO_REPLACE"), Str("NEEDS_APPROVAL"), Str("NO_ACTION")}

\* C9: decide is total: whatever the parsed record and the policy, it
\* returns one of AUTO_REPLACE, NEEDS_APPROVAL, NO_ACTION and never throws.
C9_DecideTotal ==
    (dOut.status # "idle") =>
        /\ dOut.status = "returned"
        /\ dOut.decision \in Decisions

\* C11: decide(parsed, null) returns NO_ACTION for every parsed record,
\* whichever of the two decide functions of decide.js receives the call.
C11_NoPolicyNoAction ==
    (dPolicy = <<>>) =>
        /\ (dOut.status # "idle") => (dOut = Decided(Str("NO_ACTION")))
        /\ (dOutLegacy.status # "idle") => (dOutLegacy = Decided(Str("NO_ACTION")))

\* The rule-based decide alone answers NO_ACTION to a null policy.
C11_RuleBasedNoPolicyNoAction ==
    (dPolicy = <<>> /\ dOut.status # "idle") => (dOut = Decided(Str("NO_ACTION")))

\* No rule of the policy matches: every condition evaluates to false.
C12_NoRuleMatches ==
    /\ dPolicy # <<>>
    /\ \A i \in 1..Len(dPolicy[1].decision_rules) :
          evaluateCondition(dPolicy[1].decision_rules[i].condition, dParsed) = "false"

\* C12: with a policy and no matching rule (the rule list absent or empty
\* included) decide returns default_decision when the policy has one and
\* NO_ACTION otherwise.
C12_DefaultDecisionWhenNoRuleMatches ==
    (C12_NoRuleMatches /\ dOut.status # "idle") =>
        dOut = Decided(IF Nullish(dPolicy[1].default_decision)
                       THEN Str("NO_ACTION")
                       ELSE dPolicy[1].default_decision)

\* Rules were there, none matched and the default decided.
C12_Witness ==
    /\ C12_NoRuleMatches
    /\ Len(dPolicy[1].decision_rules) = MaxRules
    /\ dOut = Decided(Str("NEEDS_APPROVAL"))

\* A field predicate holds: the null check, each of the four object
\* predicates, or the bare-value equality.
C10_PredicateHolds(fc, v) == EvalFieldCondition(fc, v) = "continue"

\* A condition holds when it is an object and every field predicate in it
\* holds.
C10_ConditionHolds(condition, parsed) ==
    /\ condition.isObject
    /\ \A k \in 1..Len(condition.entries) :
          C10_PredicateHolds(condition.entries[k][2], parsed[condition.entries[k][1]])

C10_Matching ==
    IF dPolicy = <<>> \/ ~dPolicy[1].hasRules THEN {}
    ELSE {i \in 1..Len(dPolicy[1].decision_rules) :
             C10_ConditionHolds(dPolicy[1].decision_rules[i].condition, dParsed)}

\* Evaluating the condition throws: a predicate with a regex that does not
\* compile is reached, every predicate before it holding.
C10_ConditionThrows(condition, parsed) ==
    /\ condition.isObject
    /\ \E k \in 1..Len(condition.entries) :
          /\ EvalFieldCondition(condition.entries[k][2],
                                parsed[condition.entries[k][1]]) = "throw"
          /\ \A j \in 1..(k - 1) :
                C10_PredicateHolds(condition.entries[j][2], parsed[condition.entries[j][1]])

\* C10: when some rule's condition holds, and evaluating no rule declared
\* before the first such rule throws, decide returns the decision of that
\* first rule, whatever the rules after it are (they are not consulted, so
\* neither their matching nor their throwing matters).
C10_FirstMatchingRuleWins ==
    (dOut.status # "idle" /\ C10_Matching # {}) =>
        LET rules == dPolicy[1].decision_rules
            first == CHOOSE i \in C10_Matching : \A k \in C10_Matching : i <= k
        IN (\A j \in 1..(first - 1) : ~C10_ConditionThrows(rules[j].condition, dParsed))
              => dOut = Decided(rules[first].decision)

\* rule[0] and rule[2] both match, with different decisions, rule[1] does
\* not, and decide returned rule[0]'s.
C10_Witness ==
    /\ dOut.status = "returned"
    /\ C10_Matching = {1, 3}
    /\ dPolicy[1].decision_rules[1].decision # dPolicy[1].decision_rules[3].decision
    /\ dOut.decision = dPolicy[1].decision_rules[1].decision
    /\ Len(dPolicy[1].decision_rules[1].condition.entries) = 2

----------------------------------------------------------------------------
(* Properties of the policy-based parser and the Policy Store *)

\* The parser of part_002 alone never selects a policy without patterns.
C13_CurrentParserSkipsZeroPatterns ==
    policyResult.matched => Len(policyResult.policy[1].patterns) > 0

\* C13: a policy with zero patterns is never the originating policy of a
\* matched result of the policy-based parser, in either parserEngine.
C13_ZeroPatternNeverSelected ==
    /\ C13_CurrentParserSkipsZeroPatterns
    /\ legacyPolicyResult.matched => Len(legacyPolicyResult.policy[1].patterns) > 0

\* A policy that can match: the guard lets it through and one of its
\* patterns matches the text.
C14_HasMatch(policy, txt) ==
    /\ ~GuardSkips(policy, txt)
    /\ \E j \in 1..Len(policy.patterns) : applyPattern(policy.patterns[j], txt).matched

\* What the claim asks of the parser: the first such policy in declaration
\* order, with the captures of its first matching pattern.
C14_Expected(policies, txt) ==
    LET can == {i \in 1..Len(policies) : C14_HasMatch(policies[i], txt)}
    IN IF can = {} THEN NotMatched
       ELSE LET i == CHOOSE x \in can : \A y \in can : x <= y
                policy == policies[i]
                hit == {j \in 1..Len(policy.patterns) :
                            applyPattern(policy.patterns[j], txt).matched}
                j == CHOOSE x \in hit : \A y \in hit : x <= y
                merged == MergeExtraction(policy.extraction_rules,
                                          applyPattern(policy.patterns[j], txt).extracted)
            IN IF SchemaAccepts(merged)
               THEN [matched |-> TRUE, threw |-> FALSE, parsed |-> merged,
                     policy |-> <<policy>>]
               ELSE Threw

\* The parser of part_002 alone returns what the claim asks.
C14_CurrentParserFirstMatch ==
    [][(/\ policyResult' # policyResult /\ policiesCache' # <<>>
        /\ PatternsCompile(policiesCache'[1]))
          => policyResult' = C14_Expected(policiesCache'[1], text)]_vars

\* C14: whenever the policy-based parser (either parserEngine) returns, it
\* returns the first policy in declaration order one of whose patterns
\* matches; the first matching pattern supplies the captures.
C14_FirstMatchingPolicyWins ==
    [][/\ (/\ policyResult' # policyResult /\ policiesCache' # <<>>
           /\ PatternsCompile(policiesCache'[1]))
            => policyResult' = C14_Expected(policiesCache'[1], text)
       /\ (/\ legacyPolicyResult' # legacyPolicyResult /\ policiesCache' # <<>>
           /\ PatternsCompile(policiesCache'[1]))
            => LET want == C14_Expected(policiesCache'[1], text)
               IN /\ legacyPolicyResult'.matched = want.matched
                  /\ legacyPolicyResult'.policy = want.policy]_vars

\* With a list in the slot, a call that is not a reload returns that list
\* and leaves the slot alone, without reading the source.
C16_CachedUntilReload ==
    (loadOut.call \in {"loadPolicies", "tryPolicyParsing"} /\ loadOut.before # <<>>)
        => /\ ~loadOut.read
           /\ ~loadOut.threw
           /\ loadOut.value = loadOut.before
           /\ policiesCache = loadOut.before

\* C16: the slot is replaced as a whole.  A loaded list is returned without
\* re-reading until reload, and after a reload the slot holds the complete
\* previous list or the complete new one, whatever the state of the source.
C16_SlotReplacedAsAWhole ==
    /\ C16_CachedUntilReload
    /\ (loadOut.call = "reloadPolicies")
        => \/ policiesCache = loadOut.before
           \/ (~loadOut.threw /\ policiesCache = loadOut.value)

\* The policy the parser settles on merges into a record the schema rejects.
C15_InvalidMerge == C14_Expected(policiesCache[1], text).threw

\* C15: a merged record of the policy path that fails validation makes
\* parseAlert throw to its caller; it is not answered with matched = false
\* and the model-backed parser is not called.
C15_InvalidPolicyRecordIsFatal ==
    (pc \notin {"start", "store", "off"} /\ C15_InvalidMerge)
        => /\ result = Thrown
           /\ healthCalls = 0
           /\ chatCalls = <<>>

C15_Witness ==
    /\ pc = "done"
    /\ C15_InvalidMerge
    /\ policyResult.threw
    /\ result = Thrown

----------------------------------------------------------------------------
(* Properties of the formatter *)

\* The policy of the call has an action_templates array in which every
\* entry carries a template.
C17_TemplatedPolicy ==
    /\ reportArgs.policy # <<>>
    /\ reportArgs.policy[1].hasTemplates
    /\ \A i \in 1..Len(reportArgs.policy[1].action_templates) :
          reportArgs.policy[1].action_templates[i].template.kind # "none"

\* C17: for a policy with N action templates formatReport returns a report
\* whose actionOptions has N entries in template order; a render failure of
\* one option (remote tool error, missing parameters, an exception while
\* rendering) neither drops an option nor prevents the report from being
\* returned.
C17_OneOptionPerTemplate ==
    (report.status # "idle" /\ C17_TemplatedPolicy) =>
        /\ report.status = "returned"
        /\ Len(report.actionOptions) = Len(reportArgs.policy[1].action_templates)
        /\ \A i \in 1..Len(report.actionOptions) :
              report.actionOptions[i].template =
                  reportArgs.policy[1].action_templates[i].template

\* What does hold for C17: whenever formatReport returns for such a policy,
\* the options are one per template and in template order, also when a
\* remote tool failed or parameters were missing.
C17_ReturnedReportHasEveryOption ==
    (report.status = "returned" /\ C17_TemplatedPolicy) =>
        /\ Len(report.actionOptions) = Len(reportArgs.policy[1].action_templates)
        /\ \A i \in 1..Len(report.actionOptions) :
              report.actionOptions[i].template =
                  reportArgs.policy[1].action_templates[i].template

\* The tools of the remote executor that change infrastructure.
C18_ExecutingTools == {"execute_recreate_instance"}

C18_DidNotExecute(r) ==
    r.status = "returned" =>
        /\ r.mcp_executed = FALSE
        /\ \A i \in 1..Len(r.calls) : r.calls[i] \notin C18_ExecutingTools

\* C18: formatReport never executes a remediation action: for every
\* decision and configuration it calls no executing tool and every report
\* it returns has mcp_executed = false.  Stated for both formatReport
\* functions the claim cites.
C18_FormatterNeverExecutes ==
    C18_DidNotExecute(report) /\ C18_DidNotExecute(legacyReport)

\* What does hold for C18: the formatReport of formatReport.js never
\* executes.
C18_CurrentFormatterNeverExecutes == C18_DidNotExecute(report)

\* An action string the formatter makes when rendering failed: missing
\* parameters, failed or errored remote rendering, missing command
\* template, unknown MCP tool.
C19_ErrorShaped(action) ==
    /\ action # <<>>
    /\ \/ Head(action) \in {Lit("Missing required parameters"), Lit("Failed to generate"),
                            Lit("Error generating"), Lit("Error preparing"),
                            Lit("MCP tool:")}
       \/ \E i \in 1..Len(action) :
              action[i] = Lit("No gcloud command template found in policy")

\* C19: no approve button is offered for an option whose action is an
\* error-shaped string of the formatter.
C19_NoApproveForFailedOption ==
    blocks.posted =>
        \A j \in 1..Len(blocks.approve) :
            blocks.approve[j] > 0 =>
                ~C19_ErrorShaped(report.actionOptions[blocks.approve[j]].action)

\* What does hold for C19: an option whose action starts with one of the
\* four patterns of isActionValid gets no approve button.
C19_ListedPatternsGetNoButton ==
    blocks.posted =>
        \A j \in 1..Len(blocks.approve) :
            blocks.approve[j] > 0 =>
                LET action == report.actionOptions[blocks.approve[j]].action
                IN ~(Head(action).k = "lit" /\ Head(action).v \in ErrorPatterns)

\* The template with each {field} of a non-null field replaced by the text
\* of String(value), taken literally, and every other placeholder kept.
RECURSIVE C20_Literal(_, _)
C20_Literal(toks, parsed) ==
    IF toks = <<>> THEN <<>>
    ELSE (IF Head(toks).k = "ph" /\ Head(toks).v \in DOMAIN parsed
             /\ ~Nullish(parsed[Head(toks).v])
          THEN TokensOf(StringOf(parsed[Head(toks).v]))
          ELSE <<Head(toks)>>)
         \o C20_Literal(Tail(toks), parsed)

\* C20: rendering a plain template replaces every {field} by the
\* stringified value for each field that is neither null nor undefined and
\* leaves every other placeholder as written.  Stated for the legacy
\* action_template and for every option rendered from a plain template.
C20_PlainTemplateRendering ==
    report.status = "returned" =>
        /\ (/\ reportArgs.policy # <<>>
            /\ ~reportArgs.policy[1].hasTemplates
            /\ reportArgs.policy[1].action_template.kind = "plain") =>
                report.action =
                    Text(C20_Literal(reportArgs.policy[1].action_template.toks,
                                     reportArgs.parsed))
        /\ \A i \in 1..Len(report.actionOptions) :
              report.actionOptions[i].template.kind = "plain" =>
                  report.actionOptions[i].action =
                      C20_Literal(report.actionOptions[i].template.toks,
                                  reportArgs.parsed)

\* What does hold for C20: a placeholder whose field is null, undefined or
\* absent is kept wherever the template has it.
C20_NullPlaceholdersKept ==
    report.status = "returned" =>
        \A i \in 1..Len(report.actionOptions) :
            report.actionOptions[i].template.kind = "plain" =>
                \A k \in 1..Len(report.actionOptions[i].template.toks) :
                    LET tok == report.actionOptions[i].template.toks[k]
                    IN (tok.k = "ph" /\ Nullish(reportArgs.parsed[tok.v])) =>
                           \E m \in 1..Len(report.actionOptions[i].action) :
                               report.actionOptions[i].action[m] = tok

----------------------------------------------------------------------------
(* Properties of the not-matched result *)

\* Neither parser matched: the policy-based parser found nothing and
\* tryLLMParsing returned matched: false with an error of its own.
C21_BothFailed ==
    /\ pc = "done"
    /\ ~policyResult.matched /\ ~policyResult.threw
    /\ llmResult.called /\ ~llmResult.matched
    /\ llmResult.error # ""

\* C21: when neither parser matches, parseAlert returns a not-matched
\* result (no exception) whose error carries the diagnostics of the failed
\* paths: the "Cannot connect to ..." message of an unreachable backend,
\* the aggregated per-model errors when every model failed.
C21_ErrorCarriesDiagnostics ==
    C21_BothFailed =>
        /\ result.status = "returned"
        /\ ~result.matched
        /\ result.error = llmResult.error

\* What does hold for C21: the result is a not-matched result and no
\* exception, with the fixed error of parseAlert.
C21_NotMatchedWithoutException ==
    C21_BothFailed =>
        /\ result.status = "returned"
        /\ ~result.matched
        /\ result.error = "Could not parse alert with policy or LLM"

----------------------------------------------------------------------------
(* Properties of the backend calls in time *)

\* C22: every parseAlert call eventually returns or throws for every
\* backend behaviour, including a backend that never answers or that stalls
\* after sending the response headers.
C22_EveryCallEnds == <>(pc = "done")

\* What does hold for C22: a call whose headers have not arrived is ended,
\* by the backend or by its timer.
C22_PendingFetchEnds ==
    /\ (pc = "health_wait") ~> (pc # "health_wait")
    /\ (pc = "chat_wait") ~> (pc # "chat_wait")

----------------------------------------------------------------------------
(* Properties of the loaded policy set *)

\* C23: after every successful loadPolicies or reload, no two policies in
\* the active cached set have the same alert_type.
C23_AlertTypeUnique ==
    policiesCache # <<>> =>
        \A i, j \in 1..Len(policiesCache[1]) :
            i # j => policiesCache[1][i].alert_type # policiesCache[1][j].alert_type

\* C28: a policy whose pattern expression is not a valid regular expression
\* is rejected when the policy set is loaded or reloaded, and an invalid
\* expression never surfaces as a failure at match time.
C28_InvalidExpressionFailsAtLoad ==
    /\ policiesCache # <<>> => PatternsCompile(policiesCache[1])
    /\ (loadOut.call = "tryPolicyParsing" /\ ~loadOut.threw) =>
            \A i \in 1..Len(loadOut.value[1]) :
                ~(policyResult.threw /\ PatternLoopThrows(loadOut.value[1][i], text))

----------------------------------------------------------------------------
(* Properties of a whole request *)

\* Both requests of the pair have returned from parseAlert.
C24_BothReturned == firstResult # Pending /\ pc \in {"done", "reported"}

C25_UnknownTypeHandled ==
    /\ pc = "reported"
    /\ result.status = "returned" /\ result.matched
    /\ llmResult.matched
    /\ FindPolicy(policiesCache[1], llmResult.parsed["alert_type"]) = <<>>

\* C25: when the model identifies an alert type for which the active policy
\* set has no policy, the result carries no policy, decide yields NO_ACTION,
\* and the report has no action and no action options.
C25_UnknownTypeGetsNoPolicy ==
    C25_UnknownTypeHandled =>
        /\ result.policy = <<>>
        /\ dOut = Decided(Str("NO_ACTION"))
        /\ report.status = "returned"
        /\ report.action = NullText
        /\ report.actionOptions = <<>>

\* The same, for a request whose text no policy matched: tryLLMParsing's
\* lookup by alert_type is then the only source of the attached policy.
C25_ModelPathGetsNoPolicy ==
    (C25_UnknownTypeHandled /\ ~policyResult.matched) =>
        /\ result.policy = <<>>
        /\ dOut = Decided(Str("NO_ACTION"))
        /\ report.status = "returned"
        /\ report.action = NullText
        /\ report.actionOptions = <<>>

\* A text no policy matched was given an unknown type by the model.
C25_ModelPathWitness == C25_UnknownTypeHandled /\ ~policyResult.matched

----------------------------------------------------------------------------
(* Properties of the order of the cascade *)

\* The models of the catalogue that may follow the preferred model.
C26_Fallbacks ==
    {availableModels[i] : i \in 1..Len(availableModels)}
        \ ({primaryModel} \cup {model \in ModelNames : IsEmbedding(model)})

\* Where model is first listed in the catalogue.
C26_FirstListed(model) ==
    CHOOSE i \in 1..Len(availableModels) :
        /\ availableModels[i] = model
        /\ \A k \in 1..(i - 1) : availableModels[k] # model

\* The candidates: the preferred model, then each fallback once, in the
\* order the catalogue lists them.
C26_CandidateOrder ==
    /\ modelsToTry[1] = primaryModel
    /\ {modelsToTry[k] : k \in 2..Len(modelsToTry)} = C26_Fallbacks
    /\ \A j, k \in 1..Len(modelsToTry) :
          j < k => modelsToTry[j] # modelsToTry[k]
    /\ \A j, k \in 2..Len(modelsToTry) :
          j < k => C26_FirstListed(modelsToTry[j]) < C26_FirstListed(modelsToTry[k])

\* C26: within one request the cascade is strictly sequential: the preferred
\* model first, then every other available model that is not an embedding
\* model, each at most once; a chat call starts only after the call to the
\* previous candidate has finished, and modelUsed is the first candidate in
\* that order whose reply validates, with no candidate after it called.
C26_SequentialCascade ==
    modelsToTry # <<>> =>
        /\ C26_CandidateOrder
        /\ CallsFollowOrder
        /\ pc \in {"chat", "chat_wait", "chat_body"} =>
              /\ Len(chatCalls) = modelIdx - 1
              /\ Len(errors) = modelIdx - 1
        /\ llmResult.matched =>
              /\ pc = "done"
              /\ chatCalls # <<>>
              /\ llmResult.modelUsed = modelsToTry[Len(chatCalls)]
              /\ Len(errors) = Len(chatCalls) - 1
              /\ \A k \in 1..Len(errors) : errors[k].model = modelsToTry[k]
              /\ ~ENABLED ChatSend

\* The second fallback validated after the preferred model and the first
\* fallback had failed.
C26_Witness ==
    /\ pc = "done"
    /\ llmResult.matched
    /\ Len(modelsToTry) = 3
    /\ Len(chatCalls) = 3
    /\ llmResult.modelUsed = modelsToTry[3]

----------------------------------------------------------------------------
(* Properties of the health check *)

\* The request reached the backend, whose health check fails or whose
\* catalogue is empty.
C27_BackendUnusable ==
    /\ healthCalls > 0
    /\ canned.health # "ok" \/ canned.models = <<>>

\* C27: when the health check fails (connection error, timeout or non-2xx)
\* or the backend lists no models, the model-backed parser returns
\* matched=false with an error and does not throw, and no chat call is
\* issued to any model.
C27_UnusableBackendNoChat ==
    C27_BackendUnusable =>
        /\ pc \in {"done", "reported"}
        /\ llmResult.called
        /\ ~llmResult.matched
        /\ llmResult.error # ""
        /\ result.status = "returned"
        /\ chatCalls = <<>>
        /\ modelsToTry = <<>>

\* The connection to the backend was refused and the request is over.
C27_Witness ==
    /\ C27_BackendUnusable
    /\ canned.health = "refused"
    /\ pc = "reported"
    /\ llmResult.error = "Cannot connect to Ollama"

----------------------------------------------------------------------------
(* Properties of the field predicates *)

\* A field predicate of one of the four kinds (its regex compiling).
C29_FieldPredicate(fc) ==
    /\ fc.shape = "object"
    /\ Truthy(fc.startsWith) \/ Truthy(fc.equals) \/ Truthy(fc.contains)
          \/ Truthy(fc.matches)
    /\ (~Truthy(fc.startsWith) /\ ~Truthy(fc.equals) /\ ~Truthy(fc.contains))
          => RegexCompiles(StringOf(fc.matches))

\* The string form of the value satisfies the predicate.
C29_StringFormSatisfies(fc, v) ==
    IF Truthy(fc.startsWith) THEN StartsWith(StringOf(v), StringOf(fc.startsWith))
    ELSE IF Truthy(fc.equals) THEN fc.equals = Str(StringOf(v))
    ELSE IF Truthy(fc.contains) THEN Includes(StringOf(v), StringOf(fc.contains))
    ELSE RegexTest(StringOf(fc.matches), StringOf(v))

\* decide returned for a policy whose first rule has one field predicate of
\* the four kinds as its condition.
C29_FirstRuleIsOnePredicate ==
    /\ dOut.status = "returned"
    /\ dPolicy # <<>>
    /\ dPolicy[1].hasRules
    /\ dPolicy[1].decision_rules # <<>>
    /\ dPolicy[1].decision_rules[1].condition.isObject
    /\ Len(dPolicy[1].decision_rules[1].condition.entries) = 1
    /\ C29_FieldPredicate(dPolicy[1].decision_rules[1].condition.entries[1][2])

\* What decide returns when no rule matches.
C29_Fallback ==
    IF Truthy(dPolicy[1].default_decision) THEN Decided(dPolicy[1].default_decision)
    ELSE Decided(Str("NO_ACTION"))

\* C29: every field predicate kind (equality, prefix, substring, regex) is
\* evaluated against the field's value coerced to string: the predicate
\* holds, and its rule decides, exactly when the string form of the value
\* satisfies it.
C29_PredicatesOnStringForm ==
    C29_FirstRuleIsOnePredicate =>
        LET rule == dPolicy[1].decision_rules[1]
            fc == rule.condition.entries[1][2]
            v == dParsed[rule.condition.entries[1][1]]
        IN /\ C29_StringFormSatisfies(fc, v) <=> EvalFieldCondition(fc, v) = "continue"
           /\ C29_StringFormSatisfies(fc, v) => dOut = Decided(rule.decision)
           /\ (~C29_StringFormSatisfies(fc, v) /\ Len(dPolicy[1].decision_rules) = 1)
                 => dOut = C29_Fallback

\* The same for the prefix, substring and regex predicates on a value that
\* is truthy: these three do read String(fieldValue).
C29_TruthyValuesOnStringForm ==
    C29_FirstRuleIsOnePredicate =>
        LET rule == dPolicy[1].decision_rules[1]
            fc == rule.condition.entries[1][2]
            v == dParsed[rule.condition.entries[1][1]]
        IN (Truthy(v) /\ (Truthy(fc.startsWith) \/ ~Truthy(fc.equals))) =>
              /\ C29_StringFormSatisfies(fc, v) <=> EvalFieldCondition(fc, v) = "continue"
              /\ C29_StringFormSatisfies(fc, v) => dOut = Decided(rule.decision)
              /\ (~C29_StringFormSatisfies(fc, v) /\ Len(dPolicy[1].decision_rules) = 1)
                    => dOut = C29_Fallback

\* A prefix predicate decided on the string form of a truthy value.
C29_TruthyWitness ==
    /\ C29_FirstRuleIsOnePredicate
    /\ Truthy(dPolicy[1].decision_rules[1].condition.entries[1][2].startsWith)
    /\ dOut = Decided(dPolicy[1].decision_rules[1].decision)
    /\ dOut # C29_Fallback

\* The rule's condition has a field predicate that is an object with none
\* of startsWith, equals, contains, matches.
C30_HasUnknownShape(rule) ==
    /\ rule.condition.isObject
    /\ \E k \in 1..Len(rule.condition.entries) :
          LET fc == rule.condition.entries[k][2]
          IN /\ fc.shape = "object"
             /\ ~Truthy(fc.startsWith) /\ ~Truthy(fc.equals)
             /\ ~Truthy(fc.contains) /\ ~Truthy(fc.matches)

\* The policy decided on, without the rules of an unknown shape.
C30_WithoutUnknown ==
    <<[dPolicy[1] EXCEPT !.decision_rules =
          SelectSeq(@, LAMBDA rule : ~C30_HasUnknownShape(rule))]>>

\* C30: a rule whose condition contains a field predicate of an
\* unrecognized shape never matches: its condition does not evaluate to
\* true, and decide returns what it returns for the policy without that
\* rule, so the rule's decision is never returned on account of it.
C30_UnknownShapeNeverMatches ==
    (dOut.status # "idle" /\ dPolicy # <<>> /\ dPolicy[1].hasRules) =>
        LET rules == dPolicy[1].decision_rules
            unknown == {k \in 1..Len(rules) : C30_HasUnknownShape(rules[k])}
        IN /\ \A k \in unknown : evaluateCondition(rules[k].condition, dParsed) # "true"
           /\ (\A k \in unknown : evaluateCondition(rules[k].condition, dParsed) = "false")
                 => dOut = decide(dParsed, C30_WithoutUnknown)

\* The first rule has a predicate of unknown shape and a decision of its
\* own; decide passed over it and returned the decision of the second.
C30_Witness ==
    /\ dOut.status = "returned"
    /\ dPolicy # <<>> /\ dPolicy[1].hasRules
    /\ Len(dPolicy[1].decision_rules) >= 2
    /\ C30_HasUnknownShape(dPolicy[1].decision_rules[1])
    /\ dOut.decision = dPolicy[1].decision_rules[2].decision
    /\ dOut.decision # dPolicy[1].decision_rules[1].decision
    /\ dOut # C29_Fallback

----------------------------------------------------------------------------
(* Properties of the disambiguation guard *)

\* The text mentions disk or storage and mentions neither memory nor RAM.
C31_DiskNotMemory ==
    /\ text.words \cap {"disk", "storage"} # {}
    /\ text.words \cap {"memory", "ram"} = {}

\* C31: the disambiguation guard runs before pattern matching: for every
\* text that mentions disk or storage and mentions neither memory nor RAM,
\* the policy-based parser never selects the add_memory_to_vm policy, even
\* when one of that policy's patterns matches the text.
C31_GuardBeforeMatching ==
    (C31_DiskNotMemory /\ policyResult.matched) =>
        policyResult.policy[1].alert_type # "add_memory_to_vm"

\* The same for a text in which the letters of "memory" and "ram" occur
\* nowhere, not even inside a longer word.
C31_GuardOnTextWithoutTheLetters ==
    (C31_DiskNotMemory /\ text.inside \cap {"memory", "ram"} = {}
        /\ policyResult.matched) =>
        policyResult.policy[1].alert_type # "add_memory_to_vm"

\* The guard passed over add_memory_to_vm although one of its patterns
\* matches the text.
C31_GuardWitness ==
    /\ C31_DiskNotMemory /\ text.inside = {}
    /\ loadOut.call = "tryPolicyParsing" /\ ~loadOut.threw
    /\ \E i \in 1..Len(loadOut.value[1]) :
          /\ loadOut.value[1][i].alert_type = "add_memory_to_vm"
          /\ FirstMatchingPattern(loadOut.value[1][i], text) # 0
    /\ ~policyResult.matched /\ ~policyResult.threw

----------------------------------------------------------------------------
(* Properties of the record of the policy-based parser *)

C32_Required ==
    {"threshold_percent", "value_percent", "metric_labels", "missing_fields",
     "confidence", "parse_method"}

\* The fixed fallback of a required field.
C32_Fallback(f) ==
    CASE f = "metric_labels" -> Obj("empty")
      [] f = "missing_fields" -> Arr("empty")
      [] f = "confidence" -> Num(DefaultConfidence)
      [] f = "parse_method" -> Str("policy")
      [] OTHER -> Null

\* The layers of the record: a captured field overrides the default, and a
\* required field is the captured value, else the default, else the
\* fallback.
C32_Layered(parsed, rules, extracted) ==
    /\ \A f \in Fields : extracted[f] # Undef => parsed[f] = extracted[f]
    /\ \A f \in C32_Required :
          /\ parsed[f] # Undef
          /\ parsed[f] = IF ~Nullish(extracted[f]) THEN extracted[f]
                         ELSE IF ~Nullish(rules[f]) THEN rules[f]
                         ELSE C32_Fallback(f)

\* The record of part_002's parser has the layers.
C32_CurrentRecordLayered ==
    policyResult.matched =>
        LET policy == policyResult.policy[1]
            j == FirstMatchingPattern(policy, text)
        IN C32_Layered(policyResult.parsed, policy.extraction_rules,
                       applyPattern(policy.patterns[j], text).extracted)

\* C32: in the record built by the policy-based parser (either
\* parserEngine), a field captured from the text overrides the policy's
\* extraction default for that field, and each of threshold_percent,
\* value_percent, metric_labels, missing_fields, confidence, parse_method is
\* always present, taking the extracted value if any, else the extraction
\* default, else its fixed fallback.
C32_RecordLayered ==
    /\ C32_CurrentRecordLayered
    /\ legacyPolicyResult.matched =>
          LET policy == legacyPolicyResult.policy[1]
          IN C32_Layered(legacyPolicyResult.parsed, policy.extraction_rules,
                         AssignAll(policy.patterns, text, EmptyObject))

----------------------------------------------------------------------------
(* Properties of a request under reload *)

\* The policies of a list.
C33_Of(list) == {list[i] : i \in 1..Len(list)}

\* C33: a single parseAlert call works on one consistent policy snapshot:
\* the policy attached to its result, the catalogue put into the model
\* prompt and the list used for the alert_type lookup all come from the same
\* cached policy list, the one the call started with, even when
\* reloadPolicies (successful or failing) runs while the call is awaiting
\* the backend.
C33_OneSnapshot ==
    /\ promptPolicies \in {<<>>, <<SnapshotList>>}
    /\ lookupPolicies \in {<<>>, <<SnapshotList>>}
    /\ (result.status = "returned" /\ result.matched /\ result.policy # <<>>)
          => result.policy[1] \in C33_Of(SnapshotList)

\* The list cached at any time is a whole list of the source: a reader
\* never meets a list that is partly replaced.
C33_WholeLists ==
    /\ policiesCache \in {<<>>} \cup {<<file.policies>> : file \in ReloadFiles}
    /\ promptPolicies \in {<<>>} \cup {<<file.policies>> : file \in ReloadFiles}
    /\ lookupPolicies \in {<<>>} \cup {<<file.policies>> : file \in ReloadFiles}

----------------------------------------------------------------------------
(* Properties of the attached policy *)

\* C34: in every matched result of parseAlert that has a policy attached,
\* the policy's alert_type equals parsed.alert_type, on the policy path, the
\* model path and the merged fall-through path.
C34_PolicyTypeIsParsedType ==
    (MatchedResult /\ result.policy # <<>>) =>
        result.parsed["alert_type"] = Str(result.policy[1].alert_type)

\* The same on the model path alone: no policy matched the text, so the
\* policy is the one tryLLMParsing looked up by the model's alert_type.
C34_ModelPathTypesAgree ==
    (MatchedResult /\ result.policy # <<>> /\ ~policyResult.matched) =>
        result.parsed["alert_type"] = Str(result.policy[1].alert_type)

\* The same on the policy path for a policy whose extraction_rules name
\* the policy's own alert_type.
C34_PolicyPathTypesAgree ==
    (MatchedResult /\ result.policy # <<>> /\ ~llmResult.called
        /\ result.policy[1].extraction_rules["alert_type"]
              = Str(result.policy[1].alert_type)) =>
        result.parsed["alert_type"] = Str(result.policy[1].alert_type)

----------------------------------------------------------------------------
(* Properties of the fall-through *)

\* The policy-based parser matched add_memory_to_vm with a critical field
\* missing, and the model-backed parser has returned not matched.
C35_FellThroughAndModelFailed ==
    /\ pc = "done"
    /\ policyResult.matched
    /\ policyResult.parsed["alert_type"] = Str("add_memory_to_vm")
    /\ ~C2_AllCriticalPresent(policyResult.parsed)
    /\ llmResult.called /\ ~llmResult.matched

\* C35: if the policy-based parser matched a field-critical type with a
\* critical field missing and the model-backed parser then returns
\* not-matched (backend unreachable, every model failed, or alert_type
\* null), parseAlert returns matched=false: the policy match is dropped and
\* is not returned as a fallback.
C35_PolicyMatchDropped ==
    C35_FellThroughAndModelFailed =>
        /\ result.status = "returned"
        /\ ~result.matched
        /\ result.policy = <<>>
        /\ result.parsed = EmptyObject

\* Every model failed after the policy-based parser had matched.
C35_Witness ==
    /\ C35_FellThroughAndModelFailed
    /\ llmResult.error = "All models failed"
    /\ Len(chatCalls) > 1

----------------------------------------------------------------------------
(* Properties of the denylist on the policy path *)

\* The policies that can match the text, by position.
C36_CanMatch ==
    {i \in 1..Len(policiesCache[1]) : C14_HasMatch(policiesCache[1][i], text)}

\* The policy-based parser has run and the first policy that matches the
\* text (with a record that validates) has a denylisted alert type.
C36_FirstMatchDenylisted ==
    /\ pc # "start"
    /\ C14_Expected(policiesCache[1], text).matched
    /\ C14_Expected(policiesCache[1], text).policy[1].alert_type \in Denylist(env)

\* C36: when the first policy that matches the text has a denylisted alert
\* type, parseAlert returns not-matched immediately: no later policy is
\* tried and the model backend is not called, even if a later
\* non-denylisted policy would match the same text.
C36_DenylistedFirstMatchEnds ==
    C36_FirstMatchDenylisted =>
        /\ pc = "done"
        /\ result.status = "returned"
        /\ ~result.matched
        /\ result.policy = <<>>
        /\ policyResult.policy = C14_Expected(policiesCache[1], text).policy
        /\ healthCalls = 0
        /\ chatCalls = <<>>
        /\ ~llmResult.called

\* A policy declared after the denylisted one matches the text too and is
\* not denylisted.
C36_Witness ==
    /\ C36_FirstMatchDenylisted
    /\ pc = "done"
    /\ \E i \in C36_CanMatch :
          /\ \E k \in C36_CanMatch : k < i
          /\ policiesCache[1][i].alert_type \notin Denylist(env)

----------------------------------------------------------------------------
(* Properties of getMCPClient and of the approval handlers *)

\* No interleaving spawns a second MCP server.
C37_AtMostOneSpawn == mcp.spawns <= 1

\* C37: under any interleaving of concurrent requests, getMCPClient spawns
\* at most one MCP server connection per process and never hands a caller a
\* client whose connect has not completed successfully, including callers
\* that arrive while the first connect is in progress and callers that
\* arrive after a connect failed.
C37_OneConnectedClient ==
    /\ mcp.spawns <= 1
    /\ \A c \in Callers :
          mcp.caller[c].pc \in {"got", "called"} => mcp.caller[c].got = "connected"

\* An approve click that is not followed by another click, approve or
\* reject, executes at most once.
C38_LoneApproveExecutesOnce ==
    (approval.reject = "idle"
        /\ Cardinality({i \in 1..MaxApprovals : approval.approve[i] # "idle"}) <= 1)
        => approval.executions <= 1 /\ ~approval.afterReject

\* C38: for one approval message the remediation action is executed at most
\* once and never after a rejection, under any interleaving of approve and
\* reject clicks, including a second approve click or a reject click that
\* arrives while the first approval's execution is still in progress.
C38_ExecutedAtMostOnce ==
    /\ approval.executions <= 1
    /\ ~approval.afterReject

----------------------------------------------------------------------------
(* Properties of the summary of formatReport *)

\* A report without rendered options (no policy, an empty action_templates
\* list, or the legacy single action_template) has a non-empty summary.
C39_SummaryWithoutOptions ==
    (report.status = "returned" /\ report.actionOptions = <<>>)
        => TextTruthy(report.summary)

\* A report with rendered options has a non-empty summary when its policy
\* has a summary_template with text besides the action placeholders.
C39_SummaryFromTemplate ==
    (report.status = "returned" /\ report.actionOptions # <<>>
        /\ reportArgs.policy[1].summary_template # <<>>)
        => TextTruthy(report.summary)

\* C39: every report returned by formatReport has a non-empty string
\* summary, for every policy shape: no policy, a policy with or without
\* summary_template, with action_templates or with the legacy single
\* action_template.
C39_SummaryNonEmpty ==
    report.status = "returned" => TextTruthy(report.summary)

=============================================================================
